---- MODULE Spec2Model ----
(***************************************************************************)
(* Model of the Deno -> Express converter: the jscodeshift rule pipeline   *)
(* (transforms/deno-to-handler.cjs), the dependency and env-var extractors *)
(* (src/utils/dependencies.ts, src/utils/env.ts) and the per-file loops of *)
(* src/convert.ts.                                                         *)
(*                                                                         *)
(* Text is modelled as a sequence of one-character strings, so that the    *)
(* regular expressions of the source are computed character by character.  *)
(***************************************************************************)
EXTENDS Integers, Sequences, FiniteSets, TLC

\* ------------------------------------------------------------------------
\* String primitives (JavaScript String.prototype methods)
\* ------------------------------------------------------------------------

\* s.startsWith(p)
StartsWith(s, p) ==
  /\ Len(p) <= Len(s)
  /\ SubSeq(s, 1, Len(p)) = p

\* s.startsWith(p, i-1): p occurs in s at (1-based) position i
OccursAt(s, p, i) ==
  /\ i >= 1
  /\ i + Len(p) - 1 <= Len(s)
  /\ SubSeq(s, i, i + Len(p) - 1) = p

\* s.endsWith(p)
EndsWith(s, p) ==
  /\ Len(p) <= Len(s)
  /\ SubSeq(s, Len(s) - Len(p) + 1, Len(s)) = p

\* s.includes(p)
Includes(s, p) == \E i \in 1..(Len(s) + 1) : OccursAt(s, p, i)

\* s.slice(i-1): the suffix of s that starts at position i
From(s, i) == SubSeq(s, i, Len(s))

\* The end of the longest run s[i..j] of characters outside Excl (i-1 when
\* s[i] is in Excl or past the end): a greedy negated class [^...]* at i.
RunEnd(s, i, Excl) ==
  LET stops == {k \in i..Len(s) : s[k] \in Excl}
  IN  IF stops = {} THEN Len(s)
      ELSE (CHOOSE k \in stops : \A m \in stops : k <= m) - 1

\* The least element of a non-empty set of positions
Least(P) == CHOOSE k \in P : \A m \in P : k <= m

\* String.prototype.trim for the blank the model uses
RECURSIVE TrimLeft(_)
TrimLeft(s) == IF s # <<>> /\ s[1] = " " THEN TrimLeft(Tail(s)) ELSE s

RECURSIVE TrimRight(_)
TrimRight(s) ==
  IF s # <<>> /\ s[Len(s)] = " " THEN TrimRight(SubSeq(s, 1, Len(s) - 1)) ELSE s

Trim(s) == TrimRight(TrimLeft(s))

Digits == {"0", "1", "2", "3", "4", "5", "6", "7", "8", "9"}

\* ------------------------------------------------------------------------
\* Literals of the source
\* ------------------------------------------------------------------------
s_npm == <<"n","p","m",":">>
s_jsr == <<"j","s","r",":">>
s_denoland == <<"d","e","n","o",".","l","a","n","d">>
s_denolandx == <<"d","e","n","o",".","l","a","n","d","/","x","/">>
s_esmsh == <<"e","s","m",".","s","h">>
s_esmshSlash == <<"e","s","m",".","s","h","/">>
s_dotTs == <<".","t","s">>
s_dotJs == <<".","j","s">>
s_mod == <<"m","o","d">>
s_slashMod == <<"/","m","o","d">>
s_std == <<"s","t","d">>
s_oak == <<"o","a","k">>
s_koa == <<"k","o","a">>
s_cors == <<"c","o","r","s">>
s_dotenv == <<"d","o","t","e","n","v">>
s_postgres == <<"p","o","s","t","g","r","e","s">>
s_pg == <<"p","g">>
s_mysql == <<"m","y","s","q","l">>
s_mysql2 == <<"m","y","s","q","l","2">>
s_redis == <<"r","e","d","i","s">>
s_bcrypt == <<"b","c","r","y","p","t">>

\* ------------------------------------------------------------------------
\* 1. Import specifier rewrite (deno-to-handler.cjs, pass 1)
\* ------------------------------------------------------------------------

\* The character class [\d.^~>=<] that must follow '@' for an unscoped
\* version suffix to be recognised
VersionStart == Digits \cup {".", "^", "~", ">", "=", "<"}

\* cleaned.match(/^(@[^/]+\/[^@]+)(?:@.*)?$/): the end of group 1, 0 if
\* the expression does not match
scopedGroupEnd(cleaned) ==
  LET e == RunEnd(cleaned, 2, {"/"})          \* [^/]+ after the '@'
      q == RunEnd(cleaned, e + 2, {"@"})      \* [^@]+ after the '/'
  IN  IF /\ cleaned # <<>>
         /\ cleaned[1] = "@"
         /\ e >= 2
         /\ e < Len(cleaned)
         /\ q >= e + 2
      THEN q
      ELSE 0

\* cleaned.replace(/@[\d.^~>=<].*$/, '')
stripVersion(cleaned) ==
  LET hits == {i \in 1..(Len(cleaned) - 1) :
                 cleaned[i] = "@" /\ cleaned[i + 1] \in VersionStart}
  IN  IF hits = {} THEN cleaned ELSE SubSeq(cleaned, 1, Least(hits) - 1)

\* The body shared by the npm: and jsr: branches once the prefix is removed
cleanRegistryName(cleaned) ==
  IF StartsWith(cleaned, <<"@">>)
  THEN IF scopedGroupEnd(cleaned) > 0
       THEN SubSeq(cleaned, 1, scopedGroupEnd(cleaned))
       ELSE cleaned
  ELSE stripVersion(cleaned)

rewriteNpm(source) == cleanRegistryName(From(source, Len(s_npm) + 1))

rewriteJsr(source) == cleanRegistryName(From(source, Len(s_jsr) + 1))

\* A match, at position i, of  lit([^@/]+)(?:@[^/]+)?(?:\/(.*))?$  : the
\* shape of both deno.land expressions (lit is "deno.land/x/" or "/")
tailMatchAt(source, lit, i) ==
  LET a  == i + Len(lit)
      e1 == RunEnd(source, a, {"@", "/"})
      hasV == e1 < Len(source) /\ source[e1 + 1] = "@"
      v  == IF hasV THEN RunEnd(source, e1 + 2, {"/"}) ELSE e1
  IN  [ok |-> /\ OccursAt(source, lit, i)
              /\ e1 >= a
              /\ (hasV => v >= e1 + 2),
       g1 |-> SubSeq(source, a, e1),
       g2 |-> IF v < Len(source) THEN From(source, v + 2) ELSE <<>>]

\* source.match(lit...$): the leftmost position where the expression matches
tailMatch(source, lit) ==
  LET hits == {i \in 1..Len(source) : tailMatchAt(source, lit, i).ok}
  IN  IF hits = {} THEN [ok |-> FALSE, g1 |-> <<>>, g2 |-> <<>>]
      ELSE tailMatchAt(source, lit, Least(hits))

\* s.replace(/\.ts$/, '')
dropTsExt(s) == IF EndsWith(s, s_dotTs) THEN SubSeq(s, 1, Len(s) - 3) ELSE s

\* The sub-path with only the .ts extension dropped, a mod segment kept
cleanSubPathKeepMod(g2) == dropTsExt(g2)

\* .replace(/\.ts$/, '').replace(/^mod$/, '').replace(/\/mod$/, '')
cleanSubPath(g2) ==
  LET a == dropTsExt(g2)
      b == IF a = s_mod THEN <<>> ELSE a
  IN  IF EndsWith(b, s_slashMod) THEN SubSeq(b, 1, Len(b) - 4) ELSE b

\* The package table of the primary deno.land rule: defined is FALSE for a
\* name that is not a key (undefined), value is <<>> for the null entry
denoMapping(pkgName) ==
  CASE pkgName = s_std      -> [defined |-> TRUE, value |-> <<>>]
    [] pkgName = s_oak      -> [defined |-> TRUE, value |-> s_koa]
    [] pkgName = s_cors     -> [defined |-> TRUE, value |-> s_cors]
    [] pkgName = s_dotenv   -> [defined |-> TRUE, value |-> s_dotenv]
    [] pkgName = s_postgres -> [defined |-> TRUE, value |-> s_pg]
    [] pkgName = s_mysql    -> [defined |-> TRUE, value |-> s_mysql2]
    [] pkgName = s_redis    -> [defined |-> TRUE, value |-> s_redis]
    [] pkgName = s_bcrypt   -> [defined |-> TRUE, value |-> s_bcrypt]
    [] OTHER                -> [defined |-> FALSE, value |-> <<>>]

\* The package table of the fallback rule (no bcrypt entry)
fallbackMapping(pkgName) ==
  CASE pkgName = s_std      -> [defined |-> TRUE, value |-> <<>>]
    [] pkgName = s_oak      -> [defined |-> TRUE, value |-> s_koa]
    [] pkgName = s_cors     -> [defined |-> TRUE, value |-> s_cors]
    [] pkgName = s_dotenv   -> [defined |-> TRUE, value |-> s_dotenv]
    [] pkgName = s_postgres -> [defined |-> TRUE, value |-> s_pg]
    [] pkgName = s_mysql    -> [defined |-> TRUE, value |-> s_mysql2]
    [] pkgName = s_redis    -> [defined |-> TRUE, value |-> s_redis]
    [] OTHER                -> [defined |-> FALSE, value |-> <<>>]

\* if (mapping[pkgName] !== undefined) { if (mapping[pkgName]) value = mapped +
\* subPath } else value = pkgName + subPath
applyMapping(source, mapped, pkgName, subPath) ==
  IF ~mapped.defined THEN pkgName \o subPath
  ELSE IF mapped.value # <<>> THEN mapped.value \o subPath
  ELSE source

rewriteDenoLand(source) ==
  LET m  == tailMatch(source, s_denolandx)
      f  == tailMatch(source, <<"/">>)
      sp == IF m.g2 # <<>> /\ cleanSubPath(m.g2) # <<>>
            THEN <<"/">> \o cleanSubPath(m.g2) ELSE <<>>
      fp == IF f.g2 # <<>> THEN <<"/">> \o dropTsExt(f.g2) ELSE <<>>
  IN  IF m.ok THEN applyMapping(source, denoMapping(m.g1), m.g1, sp)
      ELSE IF f.ok THEN applyMapping(source, fallbackMapping(f.g1), f.g1, fp)
      ELSE source

\* source.match(/esm\.sh\/(@[^/]+\/[^@?]+)(?:@[^/?]*)?/) at position i
esmScopedAt(source, i) ==
  LET a == i + Len(s_esmshSlash)
      e == RunEnd(source, a + 1, {"/"})
      q == RunEnd(source, e + 2, {"@", "?"})
  IN  [ok |-> /\ OccursAt(source, s_esmshSlash, i)
              /\ a <= Len(source)
              /\ source[a] = "@"
              /\ e >= a + 1
              /\ e < Len(source)
              /\ q >= e + 2,
       g1 |-> SubSeq(source, a, q)]

\* The unscoped match with the name running through the version
esmPlainAtKeepVersion(source, i) ==
  LET a == i + Len(s_esmshSlash)
      q == RunEnd(source, a, {"?", "/"})
  IN  [ok |-> OccursAt(source, s_esmshSlash, i) /\ q >= a,
       g1 |-> SubSeq(source, a, q)]

\* source.match(/esm\.sh\/([^@?/]+)(?:@[^/?]*)?/) at position i
esmPlainAt(source, i) ==
  LET a == i + Len(s_esmshSlash)
      q == RunEnd(source, a, {"@", "?", "/"})
  IN  [ok |-> OccursAt(source, s_esmshSlash, i) /\ q >= a,
       g1 |-> SubSeq(source, a, q)]

rewriteEsm(source) ==
  LET sc == {i \in 1..Len(source) : esmScopedAt(source, i).ok}
      pl == {i \in 1..Len(source) : esmPlainAt(source, i).ok}
  IN  IF sc # {} THEN esmScopedAt(source, Least(sc)).g1
      ELSE IF pl # {} THEN esmPlainAt(source, Least(pl)).g1
      ELSE source

\* The new value of path.node.source.value for one import declaration
rewriteImportSource(source) ==
  IF StartsWith(source, s_npm) THEN rewriteNpm(source)
  ELSE IF StartsWith(source, s_jsr) THEN rewriteJsr(source)
  ELSE IF Includes(source, s_denoland) THEN rewriteDenoLand(source)
  ELSE IF Includes(source, s_esmsh) THEN rewriteEsm(source)
  ELSE source

\* ------------------------------------------------------------------------
\* Syntax tree (the jscodeshift / ast-types nodes the rules look at)
\* ------------------------------------------------------------------------

StringLiteral(v) == [type |-> "StringLiteral", value |-> v]

Identifier(n) == [type |-> "Identifier", name |-> n]

MemberExpression(o, p, c) ==
  [type |-> "MemberExpression", object |-> o, property |-> p, computed |-> c]

CallExpression(callee, args) ==
  [type |-> "CallExpression", callee |-> callee, arguments |-> args]

LogicalExpression(op, l, r) ==
  [type |-> "LogicalExpression", operator |-> op, left |-> l, right |-> r]

AwaitExpression(a) == [type |-> "AwaitExpression", argument |-> a]

\* key: value properties of an object literal
ObjectExpression(props) == [type |-> "ObjectExpression", properties |-> props]

Property(k, v) == [key |-> Identifier(k), value |-> v]

BlockStatement(stmts) == [type |-> "BlockStatement", body |-> stmts]

ArrowFunctionExpression(params, body, isAsync) ==
  [type |-> "ArrowFunctionExpression", params |-> params, body |-> body,
   async |-> isAsync]

FunctionExpression(params, body, isAsync) ==
  [type |-> "FunctionExpression", params |-> params, body |-> body,
   async |-> isAsync]

ReturnStatement(a) == [type |-> "ReturnStatement", argument |-> a]

ExpressionStatement(e) == [type |-> "ExpressionStatement", expression |-> e]

\* const id = init
VariableDeclaration(id, init) ==
  [type |-> "VariableDeclaration", id |-> Identifier(id), init |-> init]

ImportSpecifier(n) == [type |-> "ImportSpecifier", imported |-> Identifier(n)]

ImportDefaultSpecifier(n) ==
  [type |-> "ImportDefaultSpecifier", local |-> Identifier(n)]

ImportDeclaration(specifiers, source) ==
  [type |-> "ImportDeclaration", specifiers |-> specifiers,
   source |-> StringLiteral(source)]

FunctionDeclaration(id, params, body, isAsync) ==
  [type |-> "FunctionDeclaration", id |-> id, params |-> params, body |-> body,
   async |-> isAsync]

ExportDefaultDeclaration(d) ==
  [type |-> "ExportDefaultDeclaration", declaration |-> d]

\* Deno.env.<method>
DenoEnv(method) ==
  MemberExpression(
    MemberExpression(Identifier("Deno"), Identifier("env"), FALSE),
    Identifier(method), FALSE)

\* process.env
ProcessEnv == MemberExpression(Identifier("process"), Identifier("env"), FALSE)

IsFunctionLiteral(n) ==
  n.type \in {"ArrowFunctionExpression", "FunctionExpression"}

\* The nodes directly below a node, in document order
childNodes(n) ==
  CASE n.type = "MemberExpression" -> <<n.object, n.property>>
    [] n.type = "CallExpression" -> <<n.callee>> \o n.arguments
    [] n.type = "LogicalExpression" -> <<n.left, n.right>>
    [] n.type = "AwaitExpression" -> <<n.argument>>
    [] n.type = "ObjectExpression" ->
         [k \in 1..Len(n.properties) |-> n.properties[k].value]
    [] IsFunctionLiteral(n) -> <<n.body>>
    [] n.type = "FunctionDeclaration" -> <<n.body>>
    [] n.type = "BlockStatement" -> n.body
    [] n.type = "ReturnStatement" -> <<n.argument>>
    [] n.type = "ExpressionStatement" -> <<n.expression>>
    [] n.type = "VariableDeclaration" ->
         IF "typeAnnotation" \in DOMAIN n THEN <<n.typeAnnotation, n.init>>
         ELSE <<n.init>>
    [] OTHER -> <<>>

\* j(body).find(j.AwaitExpression).length > 0
RECURSIVE containsAwait(_)
containsAwait(n) ==
  \/ n.type = "AwaitExpression"
  \/ \E k \in 1..Len(childNodes(n)) : containsAwait(childNodes(n)[k])

hasAwait(body) == containsAwait(body)

\* ------------------------------------------------------------------------
\* 2, 3. Deno.env.get(K) and Deno.env.toObject() (passes 2 and 3)
\* ------------------------------------------------------------------------

\* The structural test both passes make on a call's callee
isDenoEnvCall(n, method) ==
  /\ n.type = "CallExpression"
  /\ n.callee.type = "MemberExpression"
  /\ n.callee.object.type = "MemberExpression"
  /\ n.callee.object.object.type = "Identifier"
  /\ n.callee.object.object.name = "Deno"
  /\ n.callee.object.property.type = "Identifier"
  /\ n.callee.object.property.name = "env"
  /\ n.callee.property.type = "Identifier"
  /\ n.callee.property.name = method

\* A mutant of envGetReplacement: the `?? ''` default is left out
envGetReplacementNoDefault(call) ==
  MemberExpression(
    ProcessEnv,
    IF call.arguments # <<>> THEN call.arguments[1] ELSE StringLiteral(""),
    TRUE)

\* process.env[arg] ?? ''   with arg = arguments[0] || ''
envGetReplacement(call) ==
  LogicalExpression(
    "??",
    MemberExpression(
      ProcessEnv,
      IF call.arguments # <<>> THEN call.arguments[1] ELSE StringLiteral(""),
      TRUE),
    StringLiteral(""))

\* process.env
toObjectReplacement(call) == ProcessEnv

\* import(source)
ImportExpression(source) == [type |-> "ImportExpression", source |-> source]

TSTypeReference(typeName) == [type |-> "TSTypeReference", typeName |-> typeName]

TSQualifiedName(l, r) ==
  [type |-> "TSQualifiedName", left |-> l, right |-> Identifier(r)]

\* const id: typeAnnotation = init
TypedVariableDeclaration(id, t, init) ==
  [type |-> "VariableDeclaration", id |-> Identifier(id), init |-> init,
   typeAnnotation |-> t]

\* Pass 6: a type reference whose qualified name has the identifier Deno on
\* its left becomes a reference to `any`
scrubTypeReference(n) ==
  IF /\ n.type = "TSTypeReference"
     /\ n.typeName.type = "TSQualifiedName"
     /\ n.typeName.left.type = "Identifier"
     /\ n.typeName.left.name = "Deno"
  THEN TSTypeReference(Identifier("any"))
  ELSE n

\* Pass 8: import("npm:...") gets the npm: treatment of pass 1
rewriteDynamicImport(n) ==
  IF /\ n.type = "ImportExpression"
     /\ n.source.type = "StringLiteral"
     /\ StartsWith(n.source.value, s_npm)
  THEN ImportExpression(StringLiteral(rewriteNpm(n.source.value)))
  ELSE n

\* Pass 11: a function declaration named handler, or a function literal
\* bound to a variable named handler, becomes async when its body awaits
ensureAsync(n) ==
  IF /\ n.type = "FunctionDeclaration"
     /\ n.id.type = "Identifier"
     /\ n.id.name = "handler"
     /\ ~n.async
     /\ hasAwait(n.body)
  THEN [n EXCEPT !.async = TRUE]
  ELSE IF /\ n.type = "VariableDeclaration"
          /\ n.id.type = "Identifier"
          /\ n.id.name = "handler"
          /\ IsFunctionLiteral(n.init)
          /\ ~n.init.async
          /\ hasAwait(n.init.body)
  THEN [n EXCEPT !.init.async = TRUE]
  ELSE n

\* What one visit of a pass does to the node it is at, its children aside
visitNode(n, pass) ==
  CASE pass = "typeRefs"       -> scrubTypeReference(n)
    [] pass = "dynamicImports" -> rewriteDynamicImport(n)
    [] pass = "ensureAsync"    -> ensureAsync(n)
    [] OTHER                   -> n

\* root.find(<node type>).forEach(...) for the passes that rewrite nodes in
\* place.  The paths are collected before any replacement, outermost first:
\* in passes 2 and 3 a matching call is replaced by a node built around its
\* own first argument, and a later replacement of a call inside that
\* argument goes through the stale path of the removed call, so it does not
\* reach the new tree.  A matching call is therefore not descended into.
RECURSIVE walk(_, _)

\* The walk below a visited node n
descend(n, pass) ==
  CASE n.type = "CallExpression" ->
         IF pass = "get" /\ isDenoEnvCall(n, "get") THEN envGetReplacement(n)
         ELSE IF pass = "toObject" /\ isDenoEnvCall(n, "toObject")
         THEN toObjectReplacement(n)
         ELSE [n EXCEPT !.callee = walk(@, pass),
                        !.arguments = [k \in 1..Len(@) |-> walk(@[k], pass)]]
    [] n.type = "MemberExpression" ->
         [n EXCEPT !.object = walk(@, pass), !.property = walk(@, pass)]
    [] n.type = "LogicalExpression" ->
         [n EXCEPT !.left = walk(@, pass), !.right = walk(@, pass)]
    [] n.type = "AwaitExpression" -> [n EXCEPT !.argument = walk(@, pass)]
    [] n.type = "ObjectExpression" ->
         [n EXCEPT !.properties =
            [k \in 1..Len(@) |-> [@[k] EXCEPT !.value = walk(@, pass)]]]
    [] IsFunctionLiteral(n) -> [n EXCEPT !.body = walk(@, pass)]
    [] n.type = "FunctionDeclaration" -> [n EXCEPT !.body = walk(@, pass)]
    [] n.type = "BlockStatement" ->
         [n EXCEPT !.body = [k \in 1..Len(@) |-> walk(@[k], pass)]]
    [] n.type = "ReturnStatement" -> [n EXCEPT !.argument = walk(@, pass)]
    [] n.type = "ExpressionStatement" -> [n EXCEPT !.expression = walk(@, pass)]
    [] n.type = "VariableDeclaration" ->
         IF "typeAnnotation" \in DOMAIN n
         THEN [n EXCEPT !.init = walk(@, pass),
                        !.typeAnnotation = walk(@, pass)]
         ELSE [n EXCEPT !.init = walk(@, pass)]
    [] OTHER -> n

walk(node, pass) == descend(visitNode(node, pass), pass)

walkBody(body, pass) == [k \in 1..Len(body) |-> walk(body[k], pass)]

\* Pass 2 over the program body
rewriteEnvGet(body) == walkBody(body, "get")

\* Pass 3 over the program body
rewriteEnvToObject(body) == walkBody(body, "toObject")

\* Pass 6 over the program body
scrubTypeReferences(body) == walkBody(body, "typeRefs")

\* Pass 8 over the program body
rewriteDynamicImports(body) == walkBody(body, "dynamicImports")

\* Pass 11 over the program body
ensureHandlersAsync(body) == walkBody(body, "ensureAsync")

\* ------------------------------------------------------------------------
\* Import passes (1, 4 and 7) over the program body
\* ------------------------------------------------------------------------
s_serveSrc1 == <<"h","t","t","p","/","s","e","r","v","e","r">>
s_serveSrc2 == <<"h","t","t","p","s",":","/","/","d","e","n","o",".","l","a","n","d","/","s","t","d","/","h","t","t","p","/","s","e","r","v","e","r",".","t","s">>
s_serveSrc3 == <<"h","t","t","p","s",":","/","/","d","e","n","o",".","l","a","n","d","/","s","t","d","@">>
s_serveSrc4 == <<"s","t","d","/","h","t","t","p","/","s","e","r","v","e","r">>

\* Pass 1: every import declaration gets its specifier rewritten
rewriteImports(body) ==
  [k \in 1..Len(body) |->
     IF body[k].type = "ImportDeclaration"
     THEN [body[k] EXCEPT !.source.value = rewriteImportSource(@)]
     ELSE body[k]]

serveImportSources == <<s_serveSrc1, s_serveSrc2, s_serveSrc3, s_serveSrc4>>

\* serveImportSources.some((s) => source.includes(s))
isServeImport(source) ==
  \E k \in 1..Len(serveImportSources) : Includes(source, serveImportSources[k])

\* specifiers.filter(not the named import `serve`)
withoutServe(specifiers) ==
  LET Keep(spec) == ~(spec.type = "ImportSpecifier" /\ spec.imported.name = "serve")
  IN  SelectSeq(specifiers, Keep)

\* Pass 4, first half: `serve` leaves the imports of the known sources, and
\* an import left without specifiers is removed
removeServeImports(body) ==
  LET Filtered(st) ==
        IF st.type = "ImportDeclaration" /\ isServeImport(st.source.value)
        THEN [st EXCEPT !.specifiers = withoutServe(@)]
        ELSE st
      Stays(st) ==
        ~(/\ st.type = "ImportDeclaration"
          /\ isServeImport(st.source.value)
          /\ withoutServe(st.specifiers) = <<>>)
  IN  [k \in 1..Len(SelectSeq(body, Stays)) |-> Filtered(SelectSeq(body, Stays)[k])]

\* Pass 7: a relative import ending in .ts ends in .js
fixRelativeImports(body) ==
  [k \in 1..Len(body) |->
     IF /\ body[k].type = "ImportDeclaration"
        /\ StartsWith(body[k].source.value, <<".">>)
        /\ EndsWith(body[k].source.value, s_dotTs)
     THEN [body[k] EXCEPT !.source.value = SubSeq(@, 1, Len(@) - 3) \o s_dotJs]
     ELSE body[k]]

\* ------------------------------------------------------------------------
\* 4, 5. Entry-point normalisation: serve(...) and Deno.serve(...)
\* ------------------------------------------------------------------------

\* A missing argument (JavaScript undefined)
Undefined == [type |-> "undefined"]

\* A path to a statement: <<i>> is statement i of the program, <<i, j>> is
\* statement j of the block that is statement i of the program
nodeAt(body, p) == IF Len(p) = 1 THEN body[p[1]] ELSE body[p[1]].body[p[2]]

Splice(seq, i, nodes) == SubSeq(seq, 1, i - 1) \o nodes \o SubSeq(seq, i + 1, Len(seq))

\* j(path).replaceWith(nodes): the statement list that holds the path gets
\* the nodes in place of the statement
replaceAt(body, p, nodes) ==
  IF Len(p) = 1 THEN Splice(body, p[1], nodes)
  ELSE [body EXCEPT ![p[1]].body = Splice(@, p[2], nodes)]

\* root.find(j.ExpressionStatement): the expression statements in document
\* order, at the top level and inside blocks
RECURSIVE expressionStatementsFrom(_, _)
expressionStatementsFrom(body, i) ==
  LET inner == IF body[i].type = "BlockStatement"
               THEN LET IsExpr(p) == body[i].body[p[2]].type = "ExpressionStatement"
                    IN  SelectSeq([j \in 1..Len(body[i].body) |-> <<i, j>>], IsExpr)
               ELSE <<>>
  IN  IF i > Len(body) THEN <<>>
      ELSE (IF body[i].type = "ExpressionStatement" THEN << <<i>> >> ELSE inner)
           \o expressionStatementsFrom(body, i + 1)

expressionStatements(body) == expressionStatementsFrom(body, 1)

\* The paths that follow a replaced statement in its list move with it
shiftPaths(paths, p, n) ==
  [k \in 1..Len(paths) |->
     LET q == paths[k]
     IN  IF Len(p) = 1 /\ q[1] > p[1] THEN [q EXCEPT ![1] = @ + n - 1]
         ELSE IF Len(p) = 2 /\ Len(q) = 2 /\ q[1] = p[1] /\ q[2] > p[2]
         THEN [q EXCEPT ![2] = @ + n - 1]
         ELSE q]

\* expr is the call serve(...)
isServeCall(expr) ==
  /\ expr.type = "CallExpression"
  /\ expr.callee.type = "Identifier"
  /\ expr.callee.name = "serve"

\* expr is the call Deno.serve(...)
isDenoServeCall(expr) ==
  /\ expr.type = "CallExpression"
  /\ expr.callee.type = "MemberExpression"
  /\ expr.callee.object.type = "Identifier"
  /\ expr.callee.object.name = "Deno"
  /\ expr.callee.property.type = "Identifier"
  /\ expr.callee.property.name = "serve"

\* expr.arguments[0]
serveHandlerArg(expr) ==
  IF expr.arguments = <<>> THEN Undefined ELSE expr.arguments[1]

\* The handler of Deno.serve: the second argument when there are several,
\* else the first; the `handler` property when that is an object with one
denoServeHandlerArg(expr) ==
  LET positional == IF Len(expr.arguments) > 1 THEN expr.arguments[2]
                    ELSE serveHandlerArg(expr)
      props == positional.properties
      hits == {k \in 1..Len(props) : props[k].key.name = "handler"}
  IN  IF positional.type = "ObjectExpression" /\ hits # {}
      THEN props[Least(hits)].value
      ELSE positional

\* The statements with the function async only when its body holds an await
emissionAsyncByAwait(arg) ==
  LET body == IF arg.body.type # "BlockStatement"
              THEN BlockStatement(<<ReturnStatement(arg.body)>>)
              ELSE arg.body
  IN  IF IsFunctionLiteral(arg)
      THEN << FunctionDeclaration(Identifier("handler"), arg.params, body,
                                  hasAwait(body)),
              ExportDefaultDeclaration(Identifier("handler")) >>
      ELSE IF arg.type = "Identifier"
      THEN << ExportDefaultDeclaration(Identifier(arg.name)) >>
      ELSE <<>>

\* The statements that replace a registration call whose handler is arg:
\* none when arg is neither a function literal nor an identifier
emission(arg) ==
  LET body == IF arg.body.type # "BlockStatement"
              THEN BlockStatement(<<ReturnStatement(arg.body)>>)
              ELSE arg.body
      isAsync == arg.async = TRUE \/ hasAwait(body)
  IN  IF IsFunctionLiteral(arg)
      THEN << FunctionDeclaration(Identifier("handler"), arg.params, body, isAsync),
              ExportDefaultDeclaration(Identifier("handler")) >>
      ELSE IF arg.type = "Identifier"
      THEN << ExportDefaultDeclaration(Identifier(arg.name)) >>
      ELSE <<>>

\* The handler argument a pass sees in the statement at a path, Undefined
\* when the statement is not that pass's registration call
handlerArgOf(stmt, pass) ==
  IF pass = "serve" /\ isServeCall(stmt.expression)
  THEN serveHandlerArg(stmt.expression)
  ELSE IF pass = "denoServe" /\ isDenoServeCall(stmt.expression)
  THEN denoServeHandlerArg(stmt.expression)
  ELSE Undefined

\* A mutant of visitRegistration: the handlerExported flag is never set
visitRegistrationNoFlag(st, p, pass) ==
  LET nodes == emission(handlerArgOf(nodeAt(st.body, p), pass))
  IN  IF st.handlerExported \/ nodes = <<>>
      THEN [st EXCEPT !.paths = Tail(@)]
      ELSE [body |-> replaceAt(st.body, p, nodes),
            handlerExported |-> FALSE,
            paths |-> shiftPaths(Tail(st.paths), p, Len(nodes))]

\* The iteration without its first statement, if (handlerExported) return
visitRegistrationIgnoreFlag(st, p, pass) ==
  LET nodes == emission(handlerArgOf(nodeAt(st.body, p), pass))
  IN  IF nodes = <<>>
      THEN [st EXCEPT !.paths = Tail(@)]
      ELSE [body |-> replaceAt(st.body, p, nodes),
            handlerExported |-> TRUE,
            paths |-> shiftPaths(Tail(st.paths), p, Len(nodes))]

\* One iteration of the forEach of a registration pass, on the path p, from
\* the state st = [body, handlerExported, paths]
visitRegistration(st, p, pass) ==
  LET nodes == emission(handlerArgOf(nodeAt(st.body, p), pass))
  IN  IF st.handlerExported \/ nodes = <<>>
      THEN [st EXCEPT !.paths = Tail(@)]
      ELSE [body |-> replaceAt(st.body, p, nodes),
            handlerExported |-> TRUE,
            paths |-> shiftPaths(Tail(st.paths), p, Len(nodes))]

\* A whole registration pass: every collected path in turn
RECURSIVE runRegistration(_, _)
runRegistration(st, pass) ==
  IF st.paths = <<>> THEN st
  ELSE runRegistration(visitRegistration(st, Head(st.paths), pass), pass)

registrationPass(body, handlerExported, pass) ==
  runRegistration([body |-> body, handlerExported |-> handlerExported,
                   paths |-> expressionStatements(body)], pass)

\* ------------------------------------------------------------------------
\* The two functions of transforms/deno-to-handler.cjs
\* ------------------------------------------------------------------------
s_supabaseJs == <<"@","s","u","p","a","b","a","s","e","/","s","u","p","a","b","a","s","e","-","j","s">>

\* Source text: the statements it holds and the grammars ("tsx", "babel")
\* under which it parses.  root.toSource() gives text of the same grammars.
SourceText(grammars, body) == [grammars |-> grammars, body |-> body]

\* j(fileInfo.source) throws when the text does not parse under the grammar
\* of api.jscodeshift
parses(source, grammar) == grammar \in source.grammars

\* The passes of transform, in the order the file makes them
passes ==
  <<"imports", "envGet", "envToObject", "serveImports", "serve", "denoServe",
    "typeRefs", "relativeImports", "dynamicImports", "ensureAsync">>

\* One pass on the program body; handlerExported is the flag the two
\* registration passes share
applyPass(st, pass) ==
  CASE pass = "imports" -> [st EXCEPT !.body = rewriteImports(@)]
    [] pass = "envGet" -> [st EXCEPT !.body = rewriteEnvGet(@)]
    [] pass = "envToObject" -> [st EXCEPT !.body = rewriteEnvToObject(@)]
    [] pass = "serveImports" -> [st EXCEPT !.body = removeServeImports(@)]
    [] pass \in {"serve", "denoServe"} ->
         LET r == registrationPass(st.body, st.handlerExported, pass)
         IN  [body |-> r.body, handlerExported |-> r.handlerExported]
    [] pass = "typeRefs" -> [st EXCEPT !.body = scrubTypeReferences(@)]
    [] pass = "relativeImports" -> [st EXCEPT !.body = fixRelativeImports(@)]
    [] pass = "dynamicImports" -> [st EXCEPT !.body = rewriteDynamicImports(@)]
    [] pass = "ensureAsync" -> [st EXCEPT !.body = ensureHandlersAsync(@)]

RECURSIVE runPasses(_, _)
runPasses(st, k) ==
  IF k > Len(passes) THEN st ELSE runPasses(applyPass(st, passes[k]), k + 1)

\* The rule pipeline on a parsed program body: every pass, in order
pipeline(body) ==
  runPasses([body |-> body, handlerExported |-> FALSE], 1).body

\* module.exports = function transform(fileInfo, api, options)
transform(fileInfo, grammar) ==
  IF parses(fileInfo.source, grammar)
  THEN [threw |-> FALSE,
        output |-> SourceText(fileInfo.source.grammars, pipeline(fileInfo.source.body))]
  ELSE [threw |-> TRUE, output |-> fileInfo.source]

\* root.find(j.CallExpression, {callee: {type: 'Identifier', name}}).length > 0
RECURSIVE containsCallTo(_, _)
containsCallTo(n, name) ==
  \/ /\ n.type = "CallExpression"
     /\ n.callee.type = "Identifier"
     /\ n.callee.name = name
  \/ \E k \in 1..Len(childNodes(n)) : containsCallTo(childNodes(n)[k], name)

\* The body supabaseTransform leaves: an import of createClient is put first
\* when createClient is called and no import names @supabase/supabase-js
ensureSupabaseImport(body) ==
  LET hasCreateClient == \E k \in 1..Len(body) : containsCallTo(body[k], "createClient")
      hasImport == \E k \in 1..Len(body) :
                     /\ body[k].type = "ImportDeclaration"
                     /\ Includes(body[k].source.value, s_supabaseJs)
  IN  IF hasCreateClient /\ ~hasImport
      THEN <<ImportDeclaration(<<ImportSpecifier("createClient")>>, s_supabaseJs)>>
           \o body
      ELSE body

\* module.exports = function supabaseTransform(fileInfo, api)
supabaseTransform(fileInfo, grammar) ==
  IF parses(fileInfo.source, grammar)
  THEN [threw |-> FALSE,
        output |-> SourceText(fileInfo.source.grammars,
                              ensureSupabaseImport(fileInfo.source.body))]
  ELSE [threw |-> TRUE, output |-> fileInfo.source]

\* The assignments to module.exports, in the order the file makes them
moduleExportsAssignments == <<"transform", "supabaseTransform">>

\* require(transformPath): the value module.exports holds when the file has
\* run, that is, the last one assigned
requireTransform == moduleExportsAssignments[Len(moduleExportsAssignments)]

\* ------------------------------------------------------------------------
\* Input programs
\* ------------------------------------------------------------------------
s_npmSupabase == <<"n","p","m",":","@","s","u","p","a","b","a","s","e","/","s","u","p","a","b","a","s","e","-","j","s","@","2">>
s_stdServer == <<"h","t","t","p","s",":","/","/","d","e","n","o",".","l","a","n","d","/","s","t","d","@","0",".","1","6","8",".","0","/","h","t","t","p","/","s","e","r","v","e","r",".","t","s">>
s_sharedCors == <<".",".","/","_","s","h","a","r","e","d","/","c","o","r","s",".","t","s">>
s_xStdPath == <<"h","t","t","p","s",":","/","/","d","e","n","o",".","l","a","n","d","/","x","/","s","t","d","@","0",".","1","6","8",".","0","/","p","a","t","h","/","m","o","d",".","t","s">>
s_stdPathNoScheme == <<"d","e","n","o",".","l","a","n","d","/","s","t","d","@","0",".","1","6","8",".","0","/","p","a","t","h","/","m","o","d",".","t","s">>
s_stdHttpMod == <<"h","t","t","p","s",":","/","/","d","e","n","o",".","l","a","n","d","/","s","t","d","@","0",".","1","6","8",".","0","/","h","t","t","p","/","m","o","d",".","t","s">>
s_npmZod == <<"n","p","m",":","z","o","d","@","3">>

\* Largest number of registration statements in an input program
MaxCalls == 2

\* How many times in a row the transform is run on a file (its output is the
\* input of the next run)
MaxRuns == 2

\* async (req) => { return await respond(req) }
AsyncBlockHandler ==
  ArrowFunctionExpression(
    <<Identifier("req")>>,
    BlockStatement(<<ReturnStatement(
      AwaitExpression(CallExpression(Identifier("respond"), <<Identifier("req")>>)))>>),
    TRUE)

\* (req) => "ok"
SyncExpressionHandler ==
  ArrowFunctionExpression(<<Identifier("req")>>, StringLiteral("ok"), FALSE)

\* async (req) => "ok"
AsyncExpressionHandler ==
  ArrowFunctionExpression(<<Identifier("req")>>, StringLiteral("ok"), TRUE)

\* function (req) { return "ok" }
SyncFunctionHandler ==
  FunctionExpression(
    <<Identifier("req")>>, BlockStatement(<<ReturnStatement(StringLiteral("ok"))>>), FALSE)

ServeCall(args) == ExpressionStatement(CallExpression(Identifier("serve"), args))

DenoServeCall(args) ==
  ExpressionStatement(
    CallExpression(
      MemberExpression(Identifier("Deno"), Identifier("serve"), FALSE), args))

PortOption == Property("port", StringLiteral("8000"))

\* Statements that hold a registration call
RegistrationPool ==
  << ServeCall(<<AsyncBlockHandler>>),
     ServeCall(<<Identifier("first")>>),
     ServeCall(<<>>),
     ServeCall(<<CallExpression(Identifier("makeHandler"), <<>>)>>),
     DenoServeCall(<<Identifier("second")>>),
     DenoServeCall(<<ObjectExpression(<<PortOption>>), SyncExpressionHandler>>),
     DenoServeCall(<<ObjectExpression(
       <<PortOption, Property("handler", SyncFunctionHandler)>>)>>),
     DenoServeCall(<<ObjectExpression(<<PortOption>>)>>),
     BlockStatement(<<ServeCall(<<Identifier("inner")>>)>>),
     BlockStatement(<<DenoServeCall(<<SyncExpressionHandler>>)>>),
     ServeCall(<<AsyncExpressionHandler>>) >>

EnvGetCall(args) == CallExpression(DenoEnv("get"), args)

\* Statements that hold no registration call
PreludePool ==
  << ImportDeclaration(<<ImportSpecifier("createClient")>>, s_npmSupabase),
     ImportDeclaration(<<ImportSpecifier("serve")>>, s_stdServer),
     ImportDeclaration(<<ImportSpecifier("corsHeaders")>>, s_sharedCors),
     ImportDeclaration(<<ImportSpecifier("join")>>, s_xStdPath),
     ImportDeclaration(<<ImportSpecifier("extname")>>, s_stdPathNoScheme),
     VariableDeclaration("supabase",
       CallExpression(Identifier("createClient"),
                      <<EnvGetCall(<<StringLiteral("SUPABASE_URL")>>)>>)),
     VariableDeclaration("empty", EnvGetCall(<<>>)),
     VariableDeclaration("nested",
       EnvGetCall(<<EnvGetCall(<<StringLiteral("KEY_NAME")>>)>>)),
     VariableDeclaration("byName", EnvGetCall(<<Identifier("name")>>)),
     VariableDeclaration("all", CallExpression(DenoEnv("toObject"), <<>>)),
     TypedVariableDeclaration("conn",
       TSTypeReference(TSQualifiedName(Identifier("Deno"), "Conn")),
       Identifier("accepted")),
     VariableDeclaration("zod",
       AwaitExpression(ImportExpression(StringLiteral(s_npmZod)))),
     TypedVariableDeclaration("missing",
       TSTypeReference(
         TSQualifiedName(TSQualifiedName(Identifier("Deno"), "errors"),
                         "NotFound")),
       Identifier("thrown")),
     TypedVariableDeclaration("req",
       TSTypeReference(TSQualifiedName(Identifier("Express"), "Request")),
       Identifier("incoming")),
     ImportDeclaration(<<ImportSpecifier("serve")>>, s_stdHttpMod),
     ImportDeclaration(<<ImportSpecifier("serve"), ImportSpecifier("Server")>>,
                       s_stdServer) >>

\* Sequences of at most n registration statements
RegistrationSeqs(n) ==
  UNION {[1..m -> 1..Len(RegistrationPool)] : m \in 0..n}

\* The program bodies the transform is run on: at most MaxCalls registration
\* statements, or one other statement followed by at most one of them
ProgramBodies ==
  {[k \in 1..Len(r) |-> RegistrationPool[r[k]]] : r \in RegistrationSeqs(MaxCalls)}
  \cup
  {<<PreludePool[p]>> \o [k \in 1..Len(r) |-> RegistrationPool[r[k]]] :
     p \in 1..Len(PreludePool), r \in RegistrationSeqs(1)}

\* ------------------------------------------------------------------------
\* State
\* ------------------------------------------------------------------------

VARIABLES
  fileInfo,         \* transform: the {path, source} it is run on
  root,             \* transform: the body of the parsed program
  pc,               \* transform: the pass that runs next
  handlerExported,  \* transform: the flag of the registration passes
  paths,            \* transform: the paths a forEach has still to visit
  run,              \* how many times the transform has been started
  returned          \* the texts the finished runs returned

VARIABLES
  specifier,        \* an import specifier, with the parts it was made of
  rewritten,        \* what the specifier rewrite made of it
  rewrites          \* how many times the rewrite was applied

VARIABLES
  sourceText,       \* the text the extractors scan
  dependencies,     \* extractDependencies: the set being built
  envVars,          \* extractEnvVariables: the set being built
  scan              \* the scan that runs next

VARIABLES
  loop,             \* which per-file loop runs: processFunction or copySharedCode
  tsFiles,          \* the files the loop goes through
  disk,             \* the text of each file on disk
  copied,           \* the text of each file when the loop started
  index,            \* the position in tsFiles of the next file
  content,          \* the text read in the last iteration
  transformed,      \* what applyTransform gave in the last iteration
  failure,          \* what failed in the last iteration, "none" if nothing
  batch             \* "loop" while the loop runs, then "done" or "aborted"

VARIABLES
  options,          \* convertRepository: the options it was called with
  remote,           \* the repository at options.repoUrl
  targetDir,        \* what there is on disk at targetDir
  step,             \* convertRepository: the statement that runs next
  functionFolders,  \* the folders analyzeFunctions goes through
  fnIndex,          \* the folder, or the FunctionInfo, a loop is at
  fileIndex,        \* the file of the folder the inner loop is at
  fnDependencies,   \* analyzeFunctions: dependencies of the folder
  fnEnvVars,        \* analyzeFunctions: envVars of the folder
  functionsInfo,    \* the FunctionInfo records built so far
  allDependencies,  \* convertRepository: allDependencies
  allEnvVars,       \* convertRepository: allEnvVars
  routes,           \* convertRepository: routes, the names pushed so far
  handlerDirs,      \* the directories there are under src/handlers
  routeFiles,       \* the route files there are under src/routes
  routesIndex       \* the import lines of src/routes/index.ts

VARIABLES
  given,            \* generateEnvExample: the set it was called with
  remainingVars,    \* generateEnvExample: envVars, after the deletes so far
  lines,            \* generateEnvExample: lines
  example,          \* generateEnvExample: the statement that runs next
  envExample        \* generateEnvExample: what it returned

transformVars == <<fileInfo, root, pc, handlerExported, paths, run, returned>>

specifierVars == <<specifier, rewritten, rewrites>>

exampleVars == <<given, remainingVars, lines, example, envExample>>

extractVars == <<sourceText, dependencies, envVars, scan, exampleVars>>

convertVars ==
  <<loop, tsFiles, disk, copied, index, content, transformed, failure, batch>>

routeVars == <<routes, handlerDirs, routeFiles, routesIndex>>

repositoryVars ==
  <<options, remote, targetDir, step, functionFolders, fnIndex, fileIndex,
    fnDependencies, fnEnvVars, functionsInfo, allDependencies, allEnvVars,
    routeVars>>

vars ==
  <<transformVars, specifierVars, extractVars, convertVars, repositoryVars>>

s_tsx == <<".","t","s","x">>
s_indexTs == <<"i","n","d","e","x",".","t","s">>
s_utilJs == <<"u","t","i","l",".","j","s">>
s_viewTsx == <<"v","i","e","w",".","t","s","x">>
s_helperJsx == <<"h","e","l","p","e","r",".","j","s","x">>

\* The values of the variables a specification does not use
TransformIdle ==
  /\ fileInfo = [path |-> s_indexTs, source |-> [grammars |-> {}, body |-> <<>>]]
  /\ root = <<>>
  /\ pc = "idle"
  /\ handlerExported = FALSE
  /\ paths = <<>>
  /\ run = 0
  /\ returned = <<>>

SpecifierIdle ==
  /\ specifier = [text |-> <<>>, registry |-> <<>>, name |-> <<>>,
                  version |-> <<>>, subpath |-> <<>>]
  /\ rewritten = <<>>
  /\ rewrites = 0

ExampleIdle ==
  /\ given = {}
  /\ remainingVars = {}
  /\ lines = <<>>
  /\ example = "idle"
  /\ envExample = <<>>

ExtractIdle ==
  /\ sourceText = [text |-> <<>>, reads |-> {}, imports |-> <<>>]
  /\ dependencies = {}
  /\ envVars = {}
  /\ scan = "idle"
  /\ ExampleIdle

RepositoryIdle ==
  /\ options = [dryRun |-> FALSE, exclude |-> {}]
  /\ remote = [functionsDir |-> FALSE, folders |-> <<>>]
  /\ targetDir = {}
  /\ step = "idle"
  /\ functionFolders = <<>>
  /\ fnIndex = 0
  /\ fileIndex = 0
  /\ fnDependencies = {}
  /\ fnEnvVars = {}
  /\ functionsInfo = <<>>
  /\ allDependencies = {}
  /\ allEnvVars = {}
  /\ routes = <<>>
  /\ handlerDirs = {}
  /\ routeFiles = {}
  /\ routesIndex = <<>>

ConvertIdle ==
  /\ loop = "none"
  /\ tsFiles = <<>>
  /\ disk = <<>>
  /\ copied = <<>>
  /\ index = 0
  /\ content = [grammars |-> {}, body |-> <<>>]
  /\ transformed = [threw |-> FALSE, value |-> [grammars |-> {}, body |-> <<>>]]
  /\ failure = "none"
  /\ batch = "idle"

\* filePath.match(/\.tsx?$/) ? 'tsx' : 'babel'
parserFor(filePath) ==
  IF EndsWith(filePath, s_dotTs) \/ EndsWith(filePath, s_tsx) THEN "tsx" ELSE "babel"

\* ------------------------------------------------------------------------
\* The rule pipeline, pass by pass
\* ------------------------------------------------------------------------

TransformInit ==
  /\ \E body \in ProgramBodies, grammars \in {{"tsx"}, {}} :
       fileInfo = [path |-> s_indexTs, source |-> SourceText(grammars, body)]
  /\ root = <<>>
  /\ pc = "parse"
  /\ handlerExported = FALSE
  /\ paths = <<>>
  /\ run = 1
  /\ returned = <<>>
  /\ SpecifierIdle
  /\ ExtractIdle
  /\ ConvertIdle
  /\ RepositoryIdle

\* const root = j(fileInfo.source)
Parse ==
  /\ pc = "parse"
  /\ IF parses(fileInfo.source, parserFor(fileInfo.path))
     THEN root' = fileInfo.source.body /\ pc' = "imports"
     ELSE root' = root /\ pc' = "threw"
  /\ UNCHANGED <<fileInfo, handlerExported, paths, run, returned>>
  /\ UNCHANGED <<specifierVars, extractVars, convertVars,
               repositoryVars>>

\* A pass that rewrites the whole tree at once
TreePass(at, next, newRoot) ==
  /\ pc = at
  /\ root' = newRoot
  /\ pc' = next
  /\ UNCHANGED <<fileInfo, handlerExported, paths, run, returned>>
  /\ UNCHANGED <<specifierVars, extractVars, convertVars,
               repositoryVars>>

RewriteImports == TreePass("imports", "envGet", rewriteImports(root))

RewriteEnvGet == TreePass("envGet", "envToObject", rewriteEnvGet(root))

RewriteEnvToObject == TreePass("envToObject", "serveImports", rewriteEnvToObject(root))

RemoveServeImports == TreePass("serveImports", "findServe", removeServeImports(root))

\* A flag that is declared once, outside the function, and keeps its value
keepHandlerExported(previous) == previous

\* let handlerExported = false, whatever an earlier call left
declareHandlerExported(previous) == FALSE

\* let handlerExported = false; root.find(j.ExpressionStatement)
FindServeCalls ==
  /\ pc = "findServe"
  /\ handlerExported' = declareHandlerExported(handlerExported)
  /\ paths' = expressionStatements(root)
  /\ pc' = "serve"
  /\ UNCHANGED <<fileInfo, root, run, returned>>
  /\ UNCHANGED <<specifierVars, extractVars, convertVars,
               repositoryVars>>

\* One iteration of a registration pass, or its end when no path is left
RegistrationStep(pass, next) ==
  /\ pc = pass
  /\ IF paths = <<>>
     THEN /\ pc' = next
          /\ UNCHANGED <<root, handlerExported, paths>>
     ELSE LET st == visitRegistration(
                      [body |-> root, handlerExported |-> handlerExported,
                       paths |-> paths], Head(paths), pass)
          IN  /\ root' = st.body
              /\ handlerExported' = st.handlerExported
              /\ paths' = st.paths
              /\ pc' = pc
  /\ UNCHANGED <<fileInfo, run, returned>>
  /\ UNCHANGED <<specifierVars, extractVars, convertVars,
               repositoryVars>>

VisitServeCall == RegistrationStep("serve", "findDenoServe")

\* root.find(j.ExpressionStatement) of pass 5
FindDenoServeCalls ==
  /\ pc = "findDenoServe"
  /\ paths' = expressionStatements(root)
  /\ pc' = "denoServe"
  /\ UNCHANGED <<fileInfo, root, handlerExported, run, returned>>
  /\ UNCHANGED <<specifierVars, extractVars, convertVars,
               repositoryVars>>

VisitDenoServeCall == RegistrationStep("denoServe", "typeRefs")

ScrubTypeReferences == TreePass("typeRefs", "relativeImports", scrubTypeReferences(root))

FixRelativeImports ==
  TreePass("relativeImports", "dynamicImports", fixRelativeImports(root))

RewriteDynamicImports ==
  TreePass("dynamicImports", "ensureAsync", rewriteDynamicImports(root))

EnsureHandlersAsync == TreePass("ensureAsync", "toSource", ensureHandlersAsync(root))

\* return root.toSource({ quote: 'single' })
ToSource ==
  /\ pc = "toSource"
  /\ returned' = Append(returned, SourceText(fileInfo.source.grammars, root))
  /\ pc' = "returned"
  /\ UNCHANGED <<fileInfo, root, handlerExported, paths, run>>
  /\ UNCHANGED <<specifierVars, extractVars, convertVars,
               repositoryVars>>

\* The transform is run again, on the text it returned
RunAgain ==
  /\ pc = "returned"
  /\ run < MaxRuns
  /\ fileInfo' = [fileInfo EXCEPT !.source = returned[run]]
  /\ run' = run + 1
  /\ pc' = "parse"
  /\ root' = <<>>
  /\ paths' = <<>>
  /\ UNCHANGED <<handlerExported, returned>>
  /\ UNCHANGED <<specifierVars, extractVars, convertVars,
               repositoryVars>>

TransformNext ==
  \/ Parse
  \/ RewriteImports
  \/ RewriteEnvGet
  \/ RewriteEnvToObject
  \/ RemoveServeImports
  \/ FindServeCalls
  \/ VisitServeCall
  \/ FindDenoServeCalls
  \/ VisitDenoServeCall
  \/ ScrubTypeReferences
  \/ FixRelativeImports
  \/ RewriteDynamicImports
  \/ EnsureHandlersAsync
  \/ ToSource
  \/ RunAgain

SpecTransform == TransformInit /\ [][TransformNext]_vars

\* ------------------------------------------------------------------------
\* Properties of the rule pipeline
\* ------------------------------------------------------------------------

\* The statements of a program, those inside blocks included, in document
\* order
RECURSIVE statementsFrom(_, _)
statementsFrom(body, i) ==
  IF i > Len(body) THEN <<>>
  ELSE (IF body[i].type = "BlockStatement" THEN <<body[i]>> \o body[i].body
        ELSE <<body[i]>>)
       \o statementsFrom(body, i + 1)

statements(body) == statementsFrom(body, 1)

\* How many default-export statements a program holds
defaultExports(body) ==
  Cardinality({k \in 1..Len(statements(body)) :
                 statements(body)[k].type = "ExportDefaultDeclaration"})

\* The stepwise pipeline and the function transform return the same text
PipelineAgrees ==
  pc = "returned" =>
    returned[run] = transform(fileInfo, parserFor(fileInfo.path)).output

\* C3 (as claimed): the transform is idempotent: a run on the text that the
\* previous run returned returns that text unchanged.
C3_Idempotent ==
  (pc = "returned" /\ run >= 2) => returned[run] = returned[run - 1]

\* A registration call: serve(...) or Deno.serve(...) as an expression
\* statement
IsRegistration(st) ==
  /\ st.type = "ExpressionStatement"
  /\ (isServeCall(st.expression) \/ isDenoServeCall(st.expression))

\* The argument that names the handler of a registration call: the first
\* argument of serve; for Deno.serve the second argument when it has several
\* and else the first, or the `handler` property of that argument when it is
\* an object literal with one.  Undefined when the call has no argument.
RegistrationHandler(st) ==
  LET args == st.expression.arguments
      pos  == IF args = <<>> THEN Undefined
              ELSE IF isDenoServeCall(st.expression) /\ Len(args) >= 2 THEN args[2]
              ELSE args[1]
      named == IF pos.type = "ObjectExpression"
               THEN {k \in 1..Len(pos.properties) :
                       pos.properties[k].key.name = "handler"}
               ELSE {}
  IN  IF isDenoServeCall(st.expression) /\ named # {}
      THEN pos.properties[Least(named)].value
      ELSE pos

\* A registration call whose handler is a function literal or an identifier
IsHonourable(st) ==
  /\ IsRegistration(st)
  /\ RegistrationHandler(st).type \in
       {"ArrowFunctionExpression", "FunctionExpression", "Identifier"}

\* The default exports the two registration passes of this run added
AddedDefaultExports == defaultExports(root) - defaultExports(fileInfo.source.body)

\* C4 (as claimed): after entry-point normalization the normalizer has added
\* exactly one default export if the file holds any registration call,
\* whatever its shape, and none if it holds none.
C4_OneExportPerRegistration ==
  pc = "typeRefs" =>
    AddedDefaultExports =
      IF \E k \in 1..Len(statements(fileInfo.source.body)) :
           IsRegistration(statements(fileInfo.source.body)[k])
      THEN 1 ELSE 0

\* C4 (amended): after entry-point normalization the normalizer has added
\* exactly one default export if the file holds a registration call whose
\* handler argument is a function literal or an identifier, and none
\* otherwise.
C4_OneExportPerHonourable ==
  pc = "typeRefs" =>
    AddedDefaultExports =
      IF \E k \in 1..Len(statements(fileInfo.source.body)) :
           IsHonourable(statements(fileInfo.source.body)[k])
      THEN 1 ELSE 0

\* C4 witness: normalization is over for a file with two honourable
\* registration calls, and one default export was added
C4_Witness ==
  /\ pc = "typeRefs"
  /\ Cardinality({k \in 1..Len(fileInfo.source.body) :
                    IsHonourable(fileInfo.source.body[k])}) = 2
  /\ AddedDefaultExports = 1

\* C6 (as claimed): a registration call is rewritten only at the top level
\* of the program: no block ever holds an emitted `function handler` or an
\* `export default`.
C6_EmittedAtTopLevel ==
  \A i \in 1..Len(root) :
    root[i].type = "BlockStatement" =>
      \A j \in 1..Len(root[i].body) :
        root[i].body[j].type \notin
          {"ExportDefaultDeclaration", "FunctionDeclaration"}

\* The value of a JavaScript expression made of string literals, bound
\* identifiers, reads of process.env and `??`, in the environment env
\* (a function from names to strings)
Bindings == [name |-> "PORT"]

JsString(v) == [t |-> "string", v |-> v]

JsUndefined == [t |-> "undefined", v |-> ""]

JsError == [t |-> "error", v |-> ""]

RECURSIVE evaluate(_, _)
evaluate(e, env) ==
  CASE e.type = "StringLiteral" -> JsString(e.value)
    [] e.type = "Identifier" ->
         IF e.name \in DOMAIN Bindings THEN JsString(Bindings[e.name]) ELSE JsError
    [] e.type = "MemberExpression" ->
         LET key == IF e.computed THEN evaluate(e.property, env)
                    ELSE JsString(e.property.name)
         IN  IF e.object # ProcessEnv \/ key.t # "string" THEN JsError
             ELSE IF key.v \in DOMAIN env THEN JsString(env[key.v])
             ELSE JsUndefined
    [] e.type = "LogicalExpression" ->
         LET l == evaluate(e.left, env)
         IN  IF e.operator # "??" THEN JsError
             ELSE IF l.t = "undefined" THEN evaluate(e.right, env)
             ELSE l
    [] OTHER -> JsError

\* The environments the rewritten expression is evaluated in
Environments ==
  UNION {[names -> {"", "value"}] : names \in SUBSET {"SUPABASE_URL", "PORT"}}

\* The key expression K of a Deno.env.get call: its first argument, the
\* empty string literal when it has none
KeyOf(call) ==
  IF call.arguments = <<>> THEN StringLiteral("") ELSE call.arguments[1]

\* after is what the claim says the env-call rewrite makes of before: each
\* outermost Deno.env.get(K) is process.env[K] ?? "" with K as it was, which
\* evaluates to the value bound to K, or to "" when K is unbound, wherever K
\* has a value; the rest of the tree is as it was
RECURSIVE EnvGetRewritten(_, _)
EnvGetRewritten(before, after) ==
  IF isDenoEnvCall(before, "get")
  THEN /\ after.type = "LogicalExpression"
       /\ after.operator = "??"
       /\ after.right = StringLiteral("")
       /\ after.left.type = "MemberExpression"
       /\ after.left.computed
       /\ after.left.object = ProcessEnv
       /\ after.left.property = KeyOf(before)
       /\ \A env \in Environments :
            LET k == evaluate(KeyOf(before), env)
            IN  k.t = "string" =>
                  evaluate(after, env) =
                    IF k.v \in DOMAIN env THEN JsString(env[k.v]) ELSE JsString("")
  ELSE /\ after.type = before.type
       /\ Len(childNodes(after)) = Len(childNodes(before))
       /\ \A k \in 1..Len(childNodes(before)) :
            EnvGetRewritten(childNodes(before)[k], childNodes(after)[k])

\* C7: the env-call pass replaces every outermost Deno.env.get(K) by
\* process.env[K] ?? "" with K unchanged (the empty string literal when the
\* call had no argument), and the new expression evaluates to the value
\* bound to K, or to the empty string when K is unbound.
C7_EnvGetRewrite ==
  [][pc = "envGet" =>
       /\ Len(root') = Len(root)
       /\ \A i \in 1..Len(root) : EnvGetRewritten(root[i], root'[i])]_vars

\* C7 witness: the env-call pass has run on Deno.env.get(name) and on a call
\* without argument
C7_Witness ==
  /\ pc = "envToObject"
  /\ run = 1
  /\ \E i \in 1..Len(root) :
       /\ fileInfo.source.body[i].type = "VariableDeclaration"
       /\ isDenoEnvCall(fileInfo.source.body[i].init, "get")
       /\ root[i].init.type = "LogicalExpression"
       /\ root[i].init.left.property \in {Identifier("name"), StringLiteral("")}

\* ------------------------------------------------------------------------
\* The specifier rewrite on its own
\* ------------------------------------------------------------------------
s_zod == <<"z","o","d">>
s_stripe == <<"s","t","r","i","p","e">>
s_scopedSupabase == <<"@","s","u","p","a","b","a","s","e","/","s","u","p","a","b","a","s","e","-","j","s">>
s_scopedStd == <<"@","s","t","d","/","p","a","t","h">>

\* Longest version string of an input specifier
MaxVersionLen == 2

\* The characters version strings are made of: digits and a dot, the range
\* operators, and letters for tags such as `latest`, `next`, `beta`, `v1`
VersionChars == {"1", "2", ".", "^", "~", ">", "=", "<", "v", "b", "l"}

\* The non-empty version strings of at most n characters
Versions(n) == UNION {[1..m -> VersionChars] : m \in 1..n}

UnscopedNames == {s_zod, s_stripe}

ScopedNames == {s_scopedSupabase, s_scopedStd}

\* registry + name + "@" + version, and registry + name when version is <<>>
RegistrySpecifier(registry, name, version) ==
  [text |-> registry \o name \o
            (IF version = <<>> THEN <<>> ELSE <<"@">> \o version),
   registry |-> registry, name |-> name, version |-> version, subpath |-> <<>>]

s_esmUrl == <<"h","t","t","p","s",":","/","/","e","s","m",".","s","h","/">>
s_denoXUrl == <<"h","t","t","p","s",":","/","/","d","e","n","o",".","l","a","n","d","/","x","/">>
s_denoUrl == <<"h","t","t","p","s",":","/","/","d","e","n","o",".","l","a","n","d","/">>
s_denoHost == <<"d","e","n","o",".","l","a","n","d","/">>
s_v12 == <<"v","1","2">>
s_modTs == <<"m","o","d",".","t","s">>
s_subModTs == <<"s","u","b","/","m","o","d",".","t","s">>
s_depsTs == <<"d","e","p","s",".","t","s">>
s_libIndexJs == <<"l","i","b","/","i","n","d","e","x",".","j","s">>
s_modModTs == <<"m","o","d","/","m","o","d",".","t","s">>
s_scopedHono == <<"@","h","o","n","o","/","z","o","d">>

\* host + name + "@" + version + "/" + subpath, the version and the subpath
\* with their separators left out when empty
UrlSpecifier(host, name, version, subpath) ==
  [text |-> host \o name \o
            (IF version = <<>> THEN <<>> ELSE <<"@">> \o version) \o
            (IF subpath = <<>> THEN <<>> ELSE <<"/">> \o subpath),
   registry |-> host, name |-> name, version |-> version, subpath |-> subpath]

\* The package names of deno.land specifiers: the keys of the tables and a
\* name that is in neither
DenoNames ==
  {s_std, s_oak, s_cors, s_dotenv, s_postgres, s_mysql, s_redis, s_bcrypt, s_zod}

SubPaths == {<<>>, s_mod, s_modTs, s_subModTs, s_depsTs, s_libIndexJs, s_modModTs}

\* The versions of URL specifiers
UrlVersionChars == {"v", "1", "2", "."}

UrlVersions ==
  {<<>>, s_v12} \cup UNION {[1..n -> UrlVersionChars] : n \in 1..MaxVersionLen}

SpecifierInit ==
  /\ \/ \E registry \in {s_npm, s_jsr},
           name \in UnscopedNames \cup ScopedNames,
           version \in Versions(MaxVersionLen) \cup {<<>>} :
          specifier = RegistrySpecifier(registry, name, version)
     \/ \E host \in {s_denoXUrl, s_denolandx, s_denoUrl, s_denoHost},
           name \in DenoNames, version \in UrlVersions, subpath \in SubPaths :
          specifier = UrlSpecifier(host, name, version, subpath)
     \/ \E name \in UnscopedNames \cup ScopedNames \cup {s_scopedHono},
           version \in UrlVersions :
          specifier = UrlSpecifier(s_esmUrl, name, version, <<>>)
  /\ rewritten = <<>>
  /\ rewrites = 0
  /\ TransformIdle
  /\ ExtractIdle
  /\ ConvertIdle
  /\ RepositoryIdle

\* Pass 1 on an import declaration with this specifier
RewriteSpecifier ==
  /\ rewrites = 0
  /\ rewritten' = rewriteImportSource(specifier.text)
  /\ rewrites' = 1
  /\ UNCHANGED <<specifier, transformVars, extractVars, convertVars,
               repositoryVars>>

SpecifierNext == RewriteSpecifier

SpecSpecifier == SpecifierInit /\ [][SpecifierNext]_vars

\* C5 (as claimed): a specifier npm:NAME@VERSION or jsr:NAME@VERSION is
\* rewritten to exactly NAME, scoped or not, whatever VERSION looks like.
C5_RegistryVersionStripped ==
  (/\ rewrites = 1
   /\ specifier.registry \in {s_npm, s_jsr}
   /\ specifier.version # <<>>) => rewritten = specifier.name

\* ------------------------------------------------------------------------
\* src/utils/dependencies.ts and src/utils/env.ts: the regular expressions
\* ------------------------------------------------------------------------

\* The end of the longest run s[i..j] of characters of Incl (i-1 when there
\* is none): a greedy class [...]* at i.
RunEndIn(s, i, Incl) ==
  LET stops == {k \in i..Len(s) : s[k] \notin Incl}
  IN  IF stops = {} THEN Len(s) ELSE Least(stops) - 1

Quotes == {"'", "\""}

\* The delimiter of a template literal (a TLA+ string cannot hold the
\* character itself)
Backtick == "backtick"

\* \s, for the blank the model uses
Blanks == {" "}

\* [A-Z]
Upper ==
  {"A","B","C","D","E","F","G","H","I","J","K","L","M",
   "N","O","P","Q","R","S","T","U","V","W","X","Y","Z"}

s_from == <<"f","r","o","m">>
s_https == <<"h","t","t","p","s",":","/","/">>
s_denoEnvGet == <<"D","e","n","o",".","e","n","v",".","g","e","t">>
s_processEnvDot == <<"p","r","o","c","e","s","s",".","e","n","v",".">>
s_processEnvBracket == <<"p","r","o","c","e","s","s",".","e","n","v","[">>
s_importMetaEnvDot == <<"i","m","p","o","r","t",".","m","e","t","a",".","e","n","v",".">>

\* The result of trying a regular expression at one position: whether it
\* matched, its capture group 1 and the position of the last character matched
NoMatch == [found |-> FALSE, group |-> <<>>, end |-> 0]

Match(s, first, last, end) ==
  [found |-> TRUE, group |-> SubSeq(s, first, last), end |-> end]

\* /from\s+['"]/ at i: the position after the opening quote, 0 without match
fromQuote(s, i) ==
  IF ~OccursAt(s, s_from, i) THEN 0
  ELSE LET b == RunEndIn(s, i + Len(s_from), Blanks)
       IN  IF b >= i + Len(s_from) /\ b < Len(s) /\ s[b + 1] \in Quotes
           THEN b + 2
           ELSE 0

\* /(?:@[^'"]+)?['"]/ after the group s[g..e]
versionTail(s, g, e) ==
  IF e >= Len(s) THEN NoMatch
  ELSE IF s[e + 1] \in Quotes THEN Match(s, g, e, e + 1)
  ELSE IF s[e + 1] = "@"
       THEN LET v == RunEnd(s, e + 2, Quotes)
            IN  IF v >= e + 2 /\ v < Len(s) THEN Match(s, g, e, v + 1)
                ELSE NoMatch
  ELSE NoMatch

\* /from\s+['"]npm:([^'"@]+)(?:@[^'"]+)?['"]/ at i, and the same for jsr:
registryPatternAt(s, prefix, i) ==
  LET p == fromQuote(s, i)
  IN  IF p = 0 \/ ~OccursAt(s, prefix, p) THEN NoMatch
      ELSE LET g == p + Len(prefix)
               e == RunEnd(s, g, Quotes \cup {"@"})
           IN  IF e < g THEN NoMatch ELSE versionTail(s, g, e)

\* /from\s+['"]npm:(@[^/]+\/[^'"@]+)(?:@[^'"]+)?['"]/ at i
npmScopedPatternAt(s, i) ==
  LET p == fromQuote(s, i)
  IN  IF p = 0 \/ ~OccursAt(s, s_npm \o <<"@">>, p) THEN NoMatch
      ELSE LET g == p + Len(s_npm)
               a == RunEnd(s, g + 1, {"/"})
           IN  IF a < g + 1 \/ a >= Len(s) THEN NoMatch
               ELSE LET e == RunEnd(s, a + 2, Quotes \cup {"@"})
                    IN  IF e < a + 2 THEN NoMatch ELSE versionTail(s, g, e)

\* /from\s+['"]https:\/\/esm\.sh\/([^@'"?]+)(?:@[^'"?]+)?[^'"]*['"]/ at i:
\* whatever follows the group up to the next quote is taken by the optional
\* version or by [^'"]*
esmPatternAt(s, i) ==
  LET p == fromQuote(s, i)
  IN  IF p = 0 \/ ~OccursAt(s, s_esmUrl, p) THEN NoMatch
      ELSE LET g == p + Len(s_esmUrl)
               e == RunEnd(s, g, Quotes \cup {"@", "?"})
               q == RunEnd(s, e + 1, Quotes)
           IN  IF e < g \/ q >= Len(s) THEN NoMatch
               ELSE Match(s, g, e, q + 1)

\* /from\s+['"](?:https:\/\/)?deno\.land\/x\/([^@/'"]+)/ at i
denoPatternAt(s, i) ==
  LET p == fromQuote(s, i)
      d == IF p # 0 /\ OccursAt(s, s_https, p) THEN p + Len(s_https) ELSE p
  IN  IF p = 0 \/ ~OccursAt(s, s_denolandx, d) THEN NoMatch
      ELSE LET g == d + Len(s_denolandx)
               e == RunEnd(s, g, Quotes \cup {"@", "/"})
           IN  IF e < g THEN NoMatch ELSE Match(s, g, e, e)

\* /Deno\.env\.get\s*\(\s*Q([^Q]+)Q\s*\)/ at i, for Q one of the characters
\* of Delims: ['"] in denoEnvPattern, the backtick in denoEnvPattern2
denoEnvPatternAt(s, Delims, i) ==
  IF ~OccursAt(s, s_denoEnvGet, i) THEN NoMatch
  ELSE LET b1 == RunEndIn(s, i + Len(s_denoEnvGet), Blanks)
       IN  IF b1 >= Len(s) \/ s[b1 + 1] # "(" THEN NoMatch
           ELSE LET b2 == RunEndIn(s, b1 + 2, Blanks)
                IN  IF b2 >= Len(s) \/ s[b2 + 1] \notin Delims THEN NoMatch
                    ELSE LET g == b2 + 2
                             e == RunEnd(s, g, Delims)
                             b3 == RunEndIn(s, e + 2, Blanks)
                         IN  IF e < g \/ e >= Len(s) \/ b3 >= Len(s)
                                THEN NoMatch
                             ELSE IF s[b3 + 1] # ")" THEN NoMatch
                             ELSE Match(s, g, e, b3 + 1)

\* /process\.env\.([A-Z_][A-Z0-9_]*)/ at i, and the same after import.meta.env.
upperNamePatternAt(s, prefix, i) ==
  IF ~OccursAt(s, prefix, i) THEN NoMatch
  ELSE LET g == i + Len(prefix)
       IN  IF g > Len(s) \/ s[g] \notin (Upper \cup {"_"}) THEN NoMatch
           ELSE LET e == RunEndIn(s, g + 1, Upper \cup Digits \cup {"_"})
                IN  Match(s, g, e, e)

\* /process\.env\[['"]([^'"]+)['"]\]/ at i
processEnvBracketPatternAt(s, i) ==
  IF ~OccursAt(s, s_processEnvBracket, i) THEN NoMatch
  ELSE LET q == i + Len(s_processEnvBracket)
       IN  IF q > Len(s) \/ s[q] \notin Quotes THEN NoMatch
           ELSE LET g == q + 1
                    e == RunEnd(s, g, Quotes)
                IN  IF e < g \/ e + 2 > Len(s) THEN NoMatch
                    ELSE IF s[e + 2] # "]" THEN NoMatch
                    ELSE Match(s, g, e, e + 2)

\* The regular expression named pattern, tried at i
matchAt(pattern, s, i) ==
  CASE pattern = "npmPattern" -> registryPatternAt(s, s_npm, i)
    [] pattern = "npmScopedPattern" -> npmScopedPatternAt(s, i)
    [] pattern = "jsrPattern" -> registryPatternAt(s, s_jsr, i)
    [] pattern = "esmPattern" -> esmPatternAt(s, i)
    [] pattern = "denoPattern" -> denoPatternAt(s, i)
    [] pattern = "denoEnvPattern" -> denoEnvPatternAt(s, Quotes, i)
    [] pattern = "denoEnvPattern2" -> denoEnvPatternAt(s, {Backtick}, i)
    [] pattern = "processEnvPattern" -> upperNamePatternAt(s, s_processEnvDot, i)
    [] pattern = "processEnvBracketPattern" -> processEnvBracketPatternAt(s, i)
    [] pattern = "viteEnvPattern" -> upperNamePatternAt(s, s_importMetaEnvDot, i)

\* while ((match = pattern.exec(source)) !== null): capture group 1 of every
\* match of a /g expression, each search starting after the previous match
RECURSIVE execAll(_, _, _)
execAll(pattern, s, i) ==
  LET starts == {k \in i..Len(s) : matchAt(pattern, s, k).found}
  IN  IF starts = {} THEN {}
      ELSE LET m == matchAt(pattern, s, Least(starts))
           IN  {m.group} \cup execAll(pattern, s, m.end + 1)

\* ------------------------------------------------------------------------
\* src/utils/dependencies.ts: extractDependencies
\* ------------------------------------------------------------------------

s_stdSlash == <<"s","t","d","/">>
s_createClient == <<"c","r","e","a","t","e","C","l","i","e","n","t">>
s_supabase == <<"s","u","p","a","b","a","s","e">>
s_OpenAI == <<"O","p","e","n","A","I">>
s_openai == <<"o","p","e","n","a","i">>
s_Stripe == <<"S","t","r","i","p","e">>
s_Resend == <<"R","e","s","e","n","d">>
s_resend == <<"r","e","s","e","n","d">>
s_hashCall == <<"h","a","s","h","(">>
s_compareCall == <<"c","o","m","p","a","r","e","(">>

\* The table of Deno -> npm package names, as <<key, value>> pairs
packageMappings ==
  { <<<<"@","s","u","p","a","b","a","s","e","/","s","u","p","a","b","a","s","e","-","j","s">>,
      <<"@","s","u","p","a","b","a","s","e","/","s","u","p","a","b","a","s","e","-","j","s">>>>,
    <<<<"o","a","k">>,
      <<"k","o","a">>>>,
    <<<<"h","o","n","o">>,
      <<"h","o","n","o">>>>,
    <<<<"l","o","d","a","s","h">>,
      <<"l","o","d","a","s","h">>>>,
    <<<<"d","a","t","e","-","f","n","s">>,
      <<"d","a","t","e","-","f","n","s">>>>,
    <<<<"u","u","i","d">>,
      <<"u","u","i","d">>>>,
    <<<<"n","a","n","o","i","d">>,
      <<"n","a","n","o","i","d">>>>,
    <<<<"z","o","d">>,
      <<"z","o","d">>>>,
    <<<<"y","u","p">>,
      <<"y","u","p">>>>,
    <<<<"j","o","i">>,
      <<"j","o","i">>>>,
    <<<<"a","x","i","o","s">>,
      <<"a","x","i","o","s">>>>,
    <<<<"n","o","d","e","-","f","e","t","c","h">>,
      <<"n","o","d","e","-","f","e","t","c","h">>>>,
    <<<<"p","o","s","t","g","r","e","s">>,
      <<"p","g">>>>,
    <<<<"m","y","s","q","l">>,
      <<"m","y","s","q","l","2">>>>,
    <<<<"r","e","d","i","s">>,
      <<"r","e","d","i","s">>>>,
    <<<<"m","o","n","g","o","d","b">>,
      <<"m","o","n","g","o","d","b">>>>,
    <<<<"o","p","e","n","a","i">>,
      <<"o","p","e","n","a","i">>>>,
    <<<<"@","a","n","t","h","r","o","p","i","c","-","a","i","/","s","d","k">>,
      <<"@","a","n","t","h","r","o","p","i","c","-","a","i","/","s","d","k">>>>,
    <<<<"l","a","n","g","c","h","a","i","n">>,
      <<"l","a","n","g","c","h","a","i","n">>>>,
    <<<<"n","o","d","e","m","a","i","l","e","r">>,
      <<"n","o","d","e","m","a","i","l","e","r">>>>,
    <<<<"r","e","s","e","n","d">>,
      <<"r","e","s","e","n","d">>>>,
    <<<<"@","s","e","n","d","g","r","i","d","/","m","a","i","l">>,
      <<"@","s","e","n","d","g","r","i","d","/","m","a","i","l">>>>,
    <<<<"s","t","r","i","p","e">>,
      <<"s","t","r","i","p","e">>>>,
    <<<<"j","s","o","n","w","e","b","t","o","k","e","n">>,
      <<"j","s","o","n","w","e","b","t","o","k","e","n">>>>,
    <<<<"j","o","s","e">>,
      <<"j","o","s","e">>>>,
    <<<<"b","c","r","y","p","t">>,
      <<"b","c","r","y","p","t">>>>,
    <<<<"c","r","y","p","t","o","-","j","s">>,
      <<"c","r","y","p","t","o","-","j","s">>>>,
    <<<<"p","d","f","k","i","t">>,
      <<"p","d","f","k","i","t">>>>,
    <<<<"p","d","f","-","l","i","b">>,
      <<"p","d","f","-","l","i","b">>>>,
    <<<<"s","h","a","r","p">>,
      <<"s","h","a","r","p">>>>,
    <<<<"j","i","m","p">>,
      <<"j","i","m","p">>>>,
    <<<<"@","a","w","s","-","s","d","k","/","c","l","i","e","n","t","-","s","3">>,
      <<"@","a","w","s","-","s","d","k","/","c","l","i","e","n","t","-","s","3">>>>,
    <<<<"@","a","w","s","-","s","d","k","/","c","l","i","e","n","t","-","s","e","s">>,
      <<"@","a","w","s","-","s","d","k","/","c","l","i","e","n","t","-","s","e","s">>>>,
    <<<<"g","o","o","g","l","e","a","p","i","s">>,
      <<"g","o","o","g","l","e","a","p","i","s">>>>,
    <<<<"@","g","o","o","g","l","e","-","c","l","o","u","d","/","s","t","o","r","a","g","e">>,
      <<"@","g","o","o","g","l","e","-","c","l","o","u","d","/","s","t","o","r","a","g","e">>>> }

\* mapPackage: the table, then scoped names as they are, then '' for a name
\* that contains 'std/', then the name itself
mapPackage(pkg) ==
  IF \E e \in packageMappings : e[1] = pkg
    THEN (CHOOSE e \in packageMappings : e[1] = pkg)[2]
  ELSE IF StartsWith(pkg, <<"@">>) THEN pkg
  ELSE IF Includes(pkg, s_stdSlash) THEN <<>>
  ELSE pkg

\* One registry loop of extractDependencies: every match is trimmed, mapped
\* and added
addMapped(pattern, source) ==
  {mapPackage(Trim(g)) : g \in execAll(pattern, source, 1)}

\* The deno.land loop: a mapped name is added only when it is truthy
addMappedTruthy(pattern, source) ==
  {m \in addMapped(pattern, source) : m # <<>>}

\* The packages implied by names the code uses
impliedDependencies(source) ==
  (IF Includes(source, s_createClient) /\ Includes(source, s_supabase)
     THEN {s_supabaseJs} ELSE {})
  \cup (IF Includes(source, s_OpenAI) \/ Includes(source, s_openai)
     THEN {s_openai} ELSE {})
  \cup (IF Includes(source, s_Stripe) \/ Includes(source, s_stripe)
     THEN {s_stripe} ELSE {})
  \cup (IF Includes(source, s_Resend) \/ Includes(source, s_resend)
     THEN {s_resend} ELSE {})
  \cup (IF \/ Includes(source, s_bcrypt)
           \/ Includes(source, s_hashCall)
           \/ Includes(source, s_compareCall)
     THEN {s_bcrypt} ELSE {})

\* extractDependencies(source), loop after loop
extractDependencies(source) ==
  addMapped("npmPattern", source)
  \cup addMapped("npmScopedPattern", source)
  \cup addMapped("jsrPattern", source)
  \cup addMapped("esmPattern", source)
  \cup addMappedTruthy("denoPattern", source)
  \cup impliedDependencies(source)

\* ------------------------------------------------------------------------
\* src/utils/env.ts: extractEnvVariables
\* ------------------------------------------------------------------------

\* The names added whenever the text contains them
commonEnvVars ==
  << <<"S","U","P","A","B","A","S","E","_","U","R","L">>,
     <<"S","U","P","A","B","A","S","E","_","A","N","O","N","_","K","E","Y">>,
     <<"S","U","P","A","B","A","S","E","_","S","E","R","V","I","C","E","_","R","O","L","E","_","K","E","Y">>,
     <<"S","U","P","A","B","A","S","E","_","J","W","T","_","S","E","C","R","E","T">>,
     <<"D","A","T","A","B","A","S","E","_","U","R","L">>,
     <<"O","P","E","N","A","I","_","A","P","I","_","K","E","Y">>,
     <<"S","T","R","I","P","E","_","S","E","C","R","E","T","_","K","E","Y">>,
     <<"S","T","R","I","P","E","_","W","E","B","H","O","O","K","_","S","E","C","R","E","T">>,
     <<"R","E","S","E","N","D","_","A","P","I","_","K","E","Y">>,
     <<"S","E","N","D","G","R","I","D","_","A","P","I","_","K","E","Y">>,
     <<"J","W","T","_","S","E","C","R","E","T">>,
     <<"A","P","I","_","K","E","Y">>,
     <<"S","E","C","R","E","T","_","K","E","Y">> >>

\* The template-literal loop skips a literal that has an interpolation
withoutInterpolation(groups) == {g \in groups : ~Includes(g, <<"$">>)}

\* for (const envVar of commonEnvVars) if (source.includes(envVar)) ...
commonNamesIn(source) ==
  {commonEnvVars[k] : k \in {j \in DOMAIN commonEnvVars :
                                Includes(source, commonEnvVars[j])}}

\* extractEnvVariables(source), loop after loop
extractEnvVariables(source) ==
  execAll("denoEnvPattern", source, 1)
  \cup withoutInterpolation(execAll("denoEnvPattern2", source, 1))
  \cup execAll("processEnvPattern", source, 1)
  \cup execAll("processEnvBracketPattern", source, 1)
  \cup execAll("viteEnvPattern", source, 1)
  \cup commonNamesIn(source)

\* ------------------------------------------------------------------------
\* The extractors, run on one file's text as analyzeFunctions does
\* ------------------------------------------------------------------------

s_importFrom == <<"i","m","p","o","r","t"," ","x"," ","f","r","o","m"," ">>
s_npmStdPath == <<"n","p","m",":","s","t","d","/","p","a","t","h">>
s_jsrStdFs == <<"j","s","r",":","s","t","d","/","f","s","@","1">>
s_esmStripe == <<"h","t","t","p","s",":","/","/","e","s","m",".","s","h","/","s","t","r","i","p","e","@","1","2","?","d","t","s">>
s_esmStdPath == <<"h","t","t","p","s",":","/","/","e","s","m",".","s","h","/","s","t","d","/","p","a","t","h">>
s_jsrScopedStd == <<"j","s","r",":","@","s","t","d","/","p","a","t","h","@","1">>
s_esmScopedSupabase == <<"h","t","t","p","s",":","/","/","e","s","m",".","s","h","/","@","s","u","p","a","b","a","s","e","/","s","u","p","a","b","a","s","e","-","j","s","@","2">>
s_denoOak == <<"h","t","t","p","s",":","/","/","d","e","n","o",".","l","a","n","d","/","x","/","o","a","k","@","v","1","2","/","m","o","d",".","t","s">>
s_PORT == <<"P","O","R","T">>
s_port == <<"p","o","r","t">>
s_apiKey == <<"a","p","i","K","e","y">>
s_My_Var == <<"M","y","_","V","a","r">>
s_API_KEY == <<"A","P","I","_","K","E","Y">>
s_interpolated ==
  s_denoEnvGet \o <<"(", Backtick, "$", "{", "k", "}", Backtick, ")", ";">>

\* How many import lines a scanned text has at most
MaxImports == 2

ImportSpecifiers ==
  {s_npmZod, s_npmSupabase, s_npmStdPath, s_jsrStdFs, s_esmStripe,
   s_esmStdPath, s_denoOak, s_jsrScopedStd, s_esmScopedSupabase,
   s_xStdPath}

EnvNames == {s_PORT, s_port, s_apiKey, s_My_Var, s_API_KEY}

EnvReadShapes == {"get", "template", "dot", "bracket", "vite"}

\* import x from "specifier";
ImportLine(spec) == s_importFrom \o <<"\"">> \o spec \o <<"\"", ";">>

RECURSIVE ImportLines(_)
ImportLines(specs) ==
  IF specs = <<>> THEN <<>> ELSE ImportLine(Head(specs)) \o ImportLines(Tail(specs))

\* A statement that reads the variable called name, in one of the shapes
EnvRead(shape, name) ==
  CASE shape = "get" -> s_denoEnvGet \o <<"(", "\"">> \o name \o <<"\"", ")", ";">>
    [] shape = "template" -> s_denoEnvGet \o <<"(", Backtick>> \o name \o <<Backtick, ")", ";">>
    [] shape = "dot" -> s_processEnvDot \o name \o <<";">>
    [] shape = "bracket" -> s_processEnvBracket \o <<"'">> \o name \o <<"'", "]", ";">>
    [] shape = "vite" -> s_importMetaEnvDot \o name \o <<";">>

\* The texts scanned: some import lines, then at most one statement reading
\* the environment; reads is the set of names the text reads, imports the
\* specifiers it imports from
SourceTexts ==
  LET specs == UNION {[1..n -> ImportSpecifiers] : n \in 0..MaxImports}
      reads == {[text |-> <<>>, reads |-> {}],
                [text |-> s_interpolated, reads |-> {}]}
               \cup {[text |-> EnvRead(shape, name), reads |-> {name}] :
                       shape \in EnvReadShapes, name \in EnvNames}
  IN  {[text |-> ImportLines(sp) \o r.text, reads |-> r.reads,
        imports |-> sp] :
         sp \in specs, r \in reads}

ExtractInit ==
  /\ sourceText \in SourceTexts
  /\ dependencies = {}
  /\ envVars = {}
  /\ scan = "npmPattern"
  /\ ExampleIdle
  /\ TransformIdle
  /\ SpecifierIdle
  /\ ConvertIdle
  /\ RepositoryIdle

\* One loop of an extractor: it adds what it found to the set it builds
ExtractStep(at, next, foundDependencies, foundEnvVars) ==
  /\ scan = at
  /\ dependencies' = dependencies \cup foundDependencies
  /\ envVars' = envVars \cup foundEnvVars
  /\ scan' = next
  /\ UNCHANGED <<sourceText, exampleVars, transformVars, specifierVars,
               convertVars, repositoryVars>>

ScanNpm ==
  ExtractStep("npmPattern", "npmScopedPattern",
              addMapped("npmPattern", sourceText.text), {})

ScanNpmScoped ==
  ExtractStep("npmScopedPattern", "jsrPattern",
              addMapped("npmScopedPattern", sourceText.text), {})

ScanJsr ==
  ExtractStep("jsrPattern", "esmPattern",
              addMapped("jsrPattern", sourceText.text), {})

ScanEsm ==
  ExtractStep("esmPattern", "denoPattern",
              addMapped("esmPattern", sourceText.text), {})

ScanDeno ==
  ExtractStep("denoPattern", "implied",
              addMappedTruthy("denoPattern", sourceText.text), {})

ScanImplied ==
  ExtractStep("implied", "denoEnvPattern",
              impliedDependencies(sourceText.text), {})

ScanDenoEnv ==
  ExtractStep("denoEnvPattern", "denoEnvPattern2",
              {}, execAll("denoEnvPattern", sourceText.text, 1))

ScanDenoEnvTemplate ==
  ExtractStep("denoEnvPattern2", "processEnvPattern",
              {}, withoutInterpolation(execAll("denoEnvPattern2", sourceText.text, 1)))

ScanProcessEnv ==
  ExtractStep("processEnvPattern", "processEnvBracketPattern",
              {}, execAll("processEnvPattern", sourceText.text, 1))

ScanProcessEnvBracket ==
  ExtractStep("processEnvBracketPattern", "viteEnvPattern",
              {}, execAll("processEnvBracketPattern", sourceText.text, 1))

ScanViteEnv ==
  ExtractStep("viteEnvPattern", "commonEnvVars",
              {}, execAll("viteEnvPattern", sourceText.text, 1))

ScanCommonEnvVars ==
  ExtractStep("commonEnvVars", "done", {}, commonNamesIn(sourceText.text))

ExtractNext ==
  \/ ScanNpm
  \/ ScanNpmScoped
  \/ ScanJsr
  \/ ScanEsm
  \/ ScanDeno
  \/ ScanImplied
  \/ ScanDenoEnv
  \/ ScanDenoEnvTemplate
  \/ ScanProcessEnv
  \/ ScanProcessEnvBracket
  \/ ScanViteEnv
  \/ ScanCommonEnvVars

SpecExtract == ExtractInit /\ [][ExtractNext]_vars

\* The loops, one after the other, build what the functions return
ExtractAgrees ==
  scan = "done" =>
    /\ dependencies = extractDependencies(sourceText.text)
    /\ envVars = extractEnvVariables(sourceText.text)

\* C8 (as claimed): the set extractDependencies builds never contains the
\* empty string, whatever pattern matched the name that mapPackage maps to ''.
C8_NoEmptyDependency == <<>> \notin dependencies

\* C9 (as claimed): once extractEnvVariables has run, every name the text
\* reads through Deno.env.get, process.env or import.meta.env is in the set,
\* whatever the case of its letters.
C9_NoFalseNegative ==
  scan = "done" => sourceText.reads \subseteq envVars

\* ------------------------------------------------------------------------
\* src/convert.ts: applyTransform and the per-file loops
\* ------------------------------------------------------------------------

s_sharedPrefix == <<".",".","/","_","s","h","a","r","e","d","/">>
s_sharedTarget == <<".",".","/",".",".","/","s","h","a","r","e","d","/">>

\* transform({path, source}, api, {}) with the function require() gave
loadedTransform(info, grammar) ==
  IF requireTransform = "transform" THEN transform(info, grammar)
  ELSE supabaseTransform(info, grammar)

\* typeof output === 'string'
isString(output) == "body" \in DOMAIN output

\* A mutant of applyTransform: no try/catch round the call of the transform
applyTransformNoCatch(filePath, source) ==
  LET output == loadedTransform([path |-> filePath, source |-> source],
                                parserFor(filePath))
  IN  [threw |-> output.threw, value |-> output.output]

\* applyTransform(filePath, source): what it returns, and whether it threw
applyTransform(filePath, source) ==
  LET output == loadedTransform([path |-> filePath, source |-> source],
                                parserFor(filePath))
  IN  IF output.threw THEN [threw |-> FALSE, value |-> source]
      ELSE IF isString(output.output) THEN [threw |-> FALSE, value |-> output.output]
      ELSE [threw |-> FALSE, value |-> source]

\* .replace(/from\s+['"]\.\.\/\_shared\/([^'"]+)['"]/g, "from '../../shared/$1'"):
\* a module source that starts with ../_shared/ and goes on starts with
\* ../../shared/ (the second replace then finds nothing)
fixSharedImports(text) ==
  [text EXCEPT !.body =
     [k \in 1..Len(text.body) |->
        IF /\ text.body[k].type = "ImportDeclaration"
           /\ StartsWith(text.body[k].source.value, s_sharedPrefix)
           /\ Len(text.body[k].source.value) > Len(s_sharedPrefix)
        THEN [text.body[k] EXCEPT !.source.value =
                s_sharedTarget \o From(@, Len(s_sharedPrefix) + 1)]
        ELSE text.body[k]]]

\* What a loop writes for a file: processFunction fixes the shared imports of
\* what applyTransform returned, copySharedCode writes it as it is
toWrite(whichLoop, text) ==
  IF whichLoop = "processFunction" THEN fixSharedImports(text) ELSE text

\* A mutant of afterCatch: the error of one file leaves the loop
afterCatchRethrow(err) == "aborted"

\* catch (err) { logger.warn(...) }: the loop goes on to the next file
afterCatch(err) == "read"

\* How many files a loop goes through at most
MaxFiles == 2

FilePaths == {s_indexTs, s_viewTsx, s_utilJs}

\* The texts of the files: a Supabase import, an import of shared code, a
\* call of createClient; parsing under both grammars, under tsx only (type
\* annotations), or under none (a syntax error)
FileTexts ==
  {SourceText(g, <<st>>) :
     g \in {{"tsx", "babel"}, {"tsx"}, {}},
     st \in {PreludePool[1], PreludePool[3], PreludePool[4]}}

\* What fs.writeFile can leave of a file when it fails after opening it
Truncated == SourceText({"tsx", "babel"}, <<>>)

\* Sequences of n different file paths
FileLists(n) ==
  {fs \in [1..n -> FilePaths] : \A a, b \in 1..n : a # b => fs[a] # fs[b]}

ConvertInit ==
  /\ loop \in {"processFunction", "copySharedCode"}
  /\ tsFiles \in UNION {FileLists(n) : n \in 1..MaxFiles}
  /\ disk \in [{tsFiles[k] : k \in 1..Len(tsFiles)} -> FileTexts]
  /\ copied = disk
  /\ index = 1
  /\ content = SourceText({}, <<>>)
  /\ transformed = [threw |-> FALSE, value |-> SourceText({}, <<>>)]
  /\ failure = "none"
  /\ batch = "read"
  /\ TransformIdle
  /\ SpecifierIdle
  /\ ExtractIdle
  /\ RepositoryIdle

\* const content = await fs.readFile(filePath, 'utf8'), outside the try: an
\* error here leaves the loop and the function
ReadFile ==
  /\ batch = "read"
  /\ index <= Len(tsFiles)
  /\ \/ /\ content' = disk[tsFiles[index]]
        /\ failure' = "none"
        /\ batch' = "transform"
     \/ /\ content' = content
        /\ failure' = "read"
        /\ batch' = "aborted"
  /\ UNCHANGED <<loop, tsFiles, disk, copied, index, transformed>>
  /\ UNCHANGED <<transformVars, specifierVars, extractVars,
               repositoryVars>>

\* const transformed = applyTransform(filePath, content), inside the try
ApplyTransform ==
  /\ batch = "transform"
  /\ transformed' = applyTransform(tsFiles[index], content)
  /\ failure' =
       IF loadedTransform([path |-> tsFiles[index], source |-> content],
                          parserFor(tsFiles[index])).threw
       THEN "transform" ELSE "none"
  /\ batch' = IF transformed'.threw THEN afterCatch("transform") ELSE "write"
  /\ index' = IF transformed'.threw THEN index + 1 ELSE index
  /\ UNCHANGED <<loop, tsFiles, disk, copied, content>>
  /\ UNCHANGED <<transformVars, specifierVars, extractVars,
               repositoryVars>>

\* await fs.writeFile(filePath, ...), inside the try: the file gets the text,
\* or the write fails and the catch goes on to the next file
WriteFile ==
  /\ batch = "write"
  /\ \/ /\ disk' = [disk EXCEPT ![tsFiles[index]] = toWrite(loop, transformed.value)]
        /\ failure' = failure
        /\ batch' = "read"
     \/ /\ disk' \in {disk, [disk EXCEPT ![tsFiles[index]] = Truncated]}
        /\ failure' = "write"
        /\ batch' = afterCatch("write")
  /\ index' = index + 1
  /\ UNCHANGED <<loop, tsFiles, copied, content, transformed>>
  /\ UNCHANGED <<transformVars, specifierVars, extractVars,
               repositoryVars>>

\* The for loop has gone through tsFiles
LoopDone ==
  /\ batch = "read"
  /\ index > Len(tsFiles)
  /\ batch' = "done"
  /\ UNCHANGED <<loop, tsFiles, disk, copied, index, content, transformed, failure>>
  /\ UNCHANGED <<transformVars, specifierVars, extractVars,
               repositoryVars>>

ConvertNext ==
  \/ ReadFile
  \/ ApplyTransform
  \/ WriteFile
  \/ LoopDone

SpecConvert == ConvertInit /\ [][ConvertNext]_vars

\* C1 (as claimed): the function applyTransform calls is the rule pipeline,
\* so whenever it does not throw, what applyTransform returns for a file is
\* the pipeline's output for it: an import from npm:@supabase/supabase-js@2
\* comes back as an import from @supabase/supabase-js.
C1_LoadedTransformIsPipeline ==
  (batch = "write" /\ failure = "none") =>
    transformed.value.body = pipeline(content.body)

\* C2: applyTransform never throws to its caller, and when the transform it
\* calls threw (the text does not parse under the grammar chosen for the
\* file) it returns exactly the text it was given.
C2_ApplyTransformFailsOpen ==
  /\ ~transformed.threw
  /\ failure = "transform" => transformed.value = content

\* A file that does not parse has gone through applyTransform
C2_Witness ==
  /\ batch = "write"
  /\ failure = "transform"
  /\ ~parses(content, parserFor(tsFiles[index]))
  /\ transformed.value = content

\* The file of the iteration that has just ended
lastFile == tsFiles[index - 1]

\* An iteration has ended whose transform failed and whose write succeeded
FailedTransformWritten ==
  /\ batch \in {"read", "done"}
  /\ index > 1
  /\ failure = "transform"

\* C10 (as claimed): a failing transform or write never ends the loop, and a
\* file whose transform failed has its original text on disk.
C10_FailedFileKeepsOriginal ==
  /\ batch = "aborted" => failure = "read"
  /\ FailedTransformWritten => disk[lastFile] = copied[lastFile]

\* C10 (amended): a failing transform or write never ends the loop (only a
\* failing read does), and a file whose transform failed is written as
\* applyTransform returned it: its original text in copySharedCode, its
\* original text with the shared imports re-pointed in processFunction.
C10_FailedFileWrittenUntransformed ==
  /\ batch = "aborted" => failure = "read"
  /\ FailedTransformWritten =>
       disk[lastFile] = toWrite(loop, copied[lastFile])

\* processFunction has written a file whose transform failed, the text on
\* disk is not the original one, and the loop goes on to a later file
C10_Witness ==
  /\ FailedTransformWritten
  /\ batch = "read"
  /\ index <= Len(tsFiles)
  /\ loop = "processFunction"
  /\ disk[lastFile] # copied[lastFile]

\* C11 (as claimed): in a file made of registration calls, the call that is
\* rewritten is the first one in document order that can be, whichever
\* pattern it uses, and the later ones are left as they were.
C11_FirstInDocumentOrder ==
  LET body == fileInfo.source.body
      H == {k \in 1..Len(body) : IsHonourable(body[k])}
      nodes == emission(RegistrationHandler(body[Least(H)]))
  IN  (/\ pc = "typeRefs"
       /\ \A k \in 1..Len(body) : IsRegistration(body[k])
       /\ H # {}) =>
        /\ SubSeq(root, Least(H), Least(H) + Len(nodes) - 1) = nodes
        /\ \A k \in H : k > Least(H) => root[k + Len(nodes) - 1] = body[k]

\* The substitute the package table is said to hold for a deno.land/x package
\* other than std: koa, pg and mysql2 for oak, postgres and mysql, and the
\* package's own name otherwise
ClaimedSubstitute(pkg) ==
  CASE pkg = s_oak      -> s_koa
    [] pkg = s_postgres -> s_pg
    [] pkg = s_mysql    -> s_mysql2
    [] OTHER            -> pkg

\* The sub-path part of the output: the sub-path without a trailing .ts,
\* nothing when that is exactly mod, without a trailing /mod otherwise, and
\* with a leading / when something is left
ClaimedSubPath(subpath) ==
  LET a == IF EndsWith(subpath, s_dotTs)
           THEN SubSeq(subpath, 1, Len(subpath) - Len(s_dotTs)) ELSE subpath
      b == IF a = s_mod THEN <<>>
           ELSE IF EndsWith(a, s_slashMod)
                THEN SubSeq(a, 1, Len(a) - Len(s_slashMod)) ELSE a
  IN  IF b = <<>> THEN <<>> ELSE <<"/">> \o b

\* The specifier is https://deno.land/x/PKG[@VERSION][/SUBPATH] or the same
\* without the scheme, PKG other than std
IsDenoX ==
  /\ specifier.registry \in {s_denoXUrl, s_denolandx}
  /\ specifier.name # s_std

IsEsmVersioned ==
  /\ specifier.registry = s_esmUrl
  /\ specifier.version # <<>>

\* C13: an esm.sh specifier with a version is rewritten to exactly its
\* package name, scoped or not, and the version does not survive.
C13_EsmVersionStripped ==
  (rewrites = 1 /\ IsEsmVersioned) => rewritten = specifier.name

\* Both a scoped and an unscoped esm.sh specifier with a version are rewritten
C13_Witness ==
  /\ rewrites = 1
  /\ IsEsmVersioned
  /\ specifier.name \in {s_scopedSupabase, s_stripe}
  /\ specifier.version = s_v12
  /\ rewritten = specifier.name

\* The specifier is a deno.land one without the /x/ segment, with or without
\* the scheme, of a package other than std
IsDenoNoX ==
  /\ specifier.registry \in {s_denoUrl, s_denoHost}
  /\ specifier.name # s_std

\* C20 (as claimed): a deno.land specifier without /x/ is rewritten to what
\* the primary rule gives for the same package, version and sub-path.
C20_FallbackAgreesWithPrimary ==
  (rewrites = 1 /\ IsDenoNoX) =>
    rewritten = rewriteImportSource(
                  UrlSpecifier(s_denoXUrl, specifier.name, specifier.version,
                               specifier.subpath).text)

\* mapping[pkgName] === null for the package the deno.land rules take from
\* this specifier
tableMapsToNull(source) ==
  LET m == tailMatch(source, s_denolandx)
      f == tailMatch(source, <<"/">>)
      null == [defined |-> TRUE, value |-> <<>>]
  IN  /\ ~StartsWith(source, s_npm)
      /\ ~StartsWith(source, s_jsr)
      /\ Includes(source, s_denoland)
      /\ IF m.ok THEN denoMapping(m.g1) = null
         ELSE f.ok /\ fallbackMapping(f.g1) = null

\* The import declarations of a program body whose package has the null entry
NullMappedImports(body) ==
  {k \in 1..Len(body) : /\ body[k].type = "ImportDeclaration"
                        /\ tableMapsToNull(body[k].source.value)}

\* C19 (as claimed): an import whose deno.land package the table maps to null
\* does not appear in what the transform returns.
C19_NullMappedImportDropped ==
  LET body == fileInfo.source.body
  IN  (pc = "returned" /\ run = 1) =>
        \A k \in NullMappedImports(body) :
          \A n \in 1..Len(returned[1].body) :
            returned[1].body[n].type = "ImportDeclaration" =>
              returned[1].body[n].specifiers # body[k].specifiers

\* The registry or URL prefix of a specifier npm:NAME[@VERSION],
\* jsr:NAME[@VERSION] or https://esm.sh/NAME[@VERSION], <<>> for another one
SpecifierPrefix(spec) ==
  IF StartsWith(spec, s_npm) THEN s_npm
  ELSE IF StartsWith(spec, s_jsr) THEN s_jsr
  ELSE IF StartsWith(spec, s_esmUrl) THEN s_esmUrl
  ELSE <<>>

\* NAME in such a specifier: what follows the prefix, up to the @ of the
\* version, the @ a scoped name starts with not being one
SpecifierName(spec) ==
  LET rest == From(spec, Len(SpecifierPrefix(spec)) + 1)
      ats  == {k \in 2..Len(rest) : rest[k] = "@"}
  IN  IF ats = {} THEN rest ELSE SubSeq(rest, 1, Least(ats) - 1)

\* The specifier has one of the three forms, with nothing after the version
HasRegistryForm(spec) ==
  /\ SpecifierPrefix(spec) # <<>>
  /\ \A k \in 1..Len(spec) : spec[k] # "?"

\* C14 (as claimed): the set extractDependencies returns contains the mapped
\* name of every package imported from npm:, jsr: or https://esm.sh/, scoped
\* or not, with or without a version.
C14_RegistryImportsFound ==
  scan = "done" =>
    \A k \in 1..Len(sourceText.imports) :
      HasRegistryForm(sourceText.imports[k]) =>
        mapPackage(SpecifierName(sourceText.imports[k])) \in dependencies

\* ------------------------------------------------------------------------
\* src/convert.ts: convertRepository up to the dry-run report
\* ------------------------------------------------------------------------

\* set.add(x) for every x of found
addAllOverwrite(set, found) == found

\* found.forEach((x) => set.add(x))
addAll(set, found) == set \cup found

MaxFolders == 2

\* The contents of two source files
s_fileZod == ImportLine(s_npmZod) \o EnvRead("get", s_PORT)

s_fileStripe == ImportLine(s_esmStripe) \o EnvRead("dot", s_API_KEY)

\* The source files of a function folder, in the order the glob lists them
FolderFiles ==
  {<<s_fileZod>>, <<s_fileStripe>>, <<s_fileZod, s_fileStripe>>,
   <<s_fileStripe, s_fileZod>>}

\* The folders of supabase/functions: one whose name starts with _, one
\* without a file findEntryFile accepts (its one source file is nested), and
\* the function folders, with at least the entry file
FolderKinds ==
  {[underscore |-> TRUE, entry |-> TRUE, files |-> <<s_fileZod>>],
   [underscore |-> FALSE, entry |-> FALSE, files |-> <<s_fileStripe>>]}
  \cup {[underscore |-> FALSE, entry |-> TRUE, files |-> fs] :
          fs \in FolderFiles}

s_myDashFn == <<"m","y","-","f","n">>
s_myUnderscoreFn == <<"m","y","_","f","n">>
s_fn == <<"f","n">>

\* How the folders of a repository are called
Namings == {"numbered", "worded"}

\* The name of the k-th folder
FolderName(k, kind, naming) ==
  (IF kind.underscore THEN <<"_">> ELSE <<>>)
    \o (IF naming = "worded" /\ k = 1 THEN s_myDashFn
        ELSE IF naming = "worded" /\ k = 2 THEN s_myUnderscoreFn
        ELSE s_fn \o <<ToString(k)>>)

\* config.exclude: nothing, or the first folder under either naming
Excludes == {{}, {s_myDashFn, s_fn \o <<"1">>}}

Remotes ==
  {[functionsDir |-> FALSE, folders |-> <<>>]}
  \cup {[functionsDir |-> TRUE,
         folders |-> [k \in 1..Len(kinds) |->
                        [name |-> FolderName(k, kinds[k], naming),
                         entry |-> kinds[k].entry,
                         files |-> kinds[k].files]]] :
          kinds \in UNION {[1..m -> FolderKinds] : m \in 0..MaxFolders},
          naming \in Namings}

RepositoryInit ==
  /\ options \in [dryRun : BOOLEAN, exclude : Excludes]
  /\ remote \in Remotes
  /\ targetDir \in {{}, {"existing"}}
  /\ step = "clone"
  /\ functionFolders = <<>>
  /\ fnIndex = 0
  /\ fileIndex = 0
  /\ fnDependencies = {}
  /\ fnEnvVars = {}
  /\ functionsInfo = <<>>
  /\ allDependencies = {}
  /\ allEnvVars = {}
  /\ routes = <<>>
  /\ handlerDirs = {}
  /\ routeFiles = {}
  /\ routesIndex = <<>>
  /\ TransformIdle
  /\ SpecifierIdle
  /\ ExtractIdle
  /\ ConvertIdle

\* if (await fs.pathExists(targetDir)) throw ...; await simpleGit().clone(...)
Clone ==
  /\ step = "clone"
  /\ IF targetDir # {}
     THEN targetDir' = targetDir /\ step' = "threw"
     ELSE targetDir' = {"repository"} /\ step' = "detect"
  /\ UNCHANGED <<options, remote, functionFolders, fnIndex, fileIndex,
                 fnDependencies, fnEnvVars, functionsInfo, allDependencies,
                 allEnvVars>>
  /\ UNCHANGED <<transformVars, specifierVars, extractVars, convertVars,
                 routeVars>>

\* entries.filter((e) => !e.startsWith('_')), as the indices of the folders
\* kept, in order
RECURSIVE functionsFrom(_, _)
functionsFrom(folders, k) ==
  IF k > Len(folders) THEN <<>>
  ELSE (IF StartsWith(folders[k].name, <<"_">>) THEN <<>> ELSE <<k>>)
         \o functionsFrom(folders, k + 1)

\* A filter that keeps every function, whatever config.exclude lists
filteredFunctionsKeepAll(folders, functions, exclude) == functions

\* projectInfo.functions.filter(fn => !(config.exclude ?? []).includes(fn))
filteredFunctions(folders, functions, exclude) ==
  SelectSeq(functions, LAMBDA k : folders[k].name \notin exclude)

\* detectProjectStructure, the functionsDir test and the filters that give
\* the folders analyzeFunctions goes through
DetectProjectStructure ==
  /\ step = "detect"
  /\ IF ~remote.functionsDir
     THEN /\ step' = "threw"
          /\ UNCHANGED <<functionFolders, fnIndex>>
     ELSE /\ functionFolders' =
               filteredFunctions(remote.folders,
                                 functionsFrom(remote.folders, 1),
                                 options.exclude)
          /\ fnIndex' = 1
          /\ step' = "folder"
  /\ UNCHANGED <<options, remote, targetDir, fileIndex, fnDependencies,
                 fnEnvVars, functionsInfo, allDependencies, allEnvVars>>
  /\ UNCHANGED <<transformVars, specifierVars, extractVars, convertVars,
                 routeVars>>

\* The folder the loop of analyzeFunctions is at
folderAt(k) == remote.folders[functionFolders[k]]

\* analyzeFunctions: the head of one turn of the loop over the folders, and
\* its end
AnalyzeFolder ==
  /\ step = "folder"
  /\ IF fnIndex > Len(functionFolders)
     THEN /\ step' = "aggregate"
          /\ fnIndex' = 1
          /\ UNCHANGED <<fileIndex, fnDependencies, fnEnvVars>>
     ELSE IF ~folderAt(fnIndex).entry
     THEN /\ step' = "folder"
          /\ fnIndex' = fnIndex + 1
          /\ UNCHANGED <<fileIndex, fnDependencies, fnEnvVars>>
     ELSE /\ step' = "file"
          /\ fileIndex' = 1
          /\ fnDependencies' = {}
          /\ fnEnvVars' = {}
          /\ UNCHANGED fnIndex
  /\ UNCHANGED <<options, remote, targetDir, functionFolders, functionsInfo,
                 allDependencies, allEnvVars>>
  /\ UNCHANGED <<transformVars, specifierVars, extractVars, convertVars,
                 routeVars>>

\* analyzeFunctions: one turn of the loop over the files of the folder
AnalyzeFile ==
  /\ step = "file"
  /\ fileIndex <= Len(folderAt(fnIndex).files)
  /\ fnDependencies' =
       addAll(fnDependencies,
              extractDependencies(folderAt(fnIndex).files[fileIndex]))
  /\ fnEnvVars' =
       addAll(fnEnvVars,
              extractEnvVariables(folderAt(fnIndex).files[fileIndex]))
  /\ fileIndex' = fileIndex + 1
  /\ UNCHANGED <<options, remote, targetDir, step, functionFolders, fnIndex,
                 functionsInfo, allDependencies, allEnvVars>>
  /\ UNCHANGED <<transformVars, specifierVars, extractVars, convertVars,
                 routeVars>>

\* analyzeFunctions: results.push({name, ..., dependencies, envVars, ...})
PushResult ==
  /\ step = "file"
  /\ fileIndex > Len(folderAt(fnIndex).files)
  /\ functionsInfo' =
       Append(functionsInfo,
              [name |-> folderAt(fnIndex).name,
               files |-> folderAt(fnIndex).files,
               dependencies |-> fnDependencies,
               envVars |-> fnEnvVars])
  /\ fnIndex' = fnIndex + 1
  /\ step' = "folder"
  /\ UNCHANGED <<options, remote, targetDir, functionFolders, fileIndex,
                 fnDependencies, fnEnvVars, allDependencies, allEnvVars>>
  /\ UNCHANGED <<transformVars, specifierVars, extractVars, convertVars,
                 routeVars>>

\* convertRepository: one turn of for (const fn of functionsInfo), and the
\* end of the loop
Aggregate ==
  /\ step = "aggregate"
  /\ IF fnIndex <= Len(functionsInfo)
     THEN /\ allDependencies' =
               addAll(allDependencies, functionsInfo[fnIndex].dependencies)
          /\ allEnvVars' = addAll(allEnvVars, functionsInfo[fnIndex].envVars)
          /\ fnIndex' = fnIndex + 1
          /\ UNCHANGED step
     ELSE /\ step' = "dryRun"
          /\ UNCHANGED <<allDependencies, allEnvVars, fnIndex>>
  /\ UNCHANGED <<options, remote, targetDir, functionFolders, fileIndex,
                 fnDependencies, fnEnvVars, functionsInfo>>
  /\ UNCHANGED <<transformVars, specifierVars, extractVars, convertVars,
                 routeVars>>

\* if (options.dryRun) { printDryRunReport(...); return; }
DryRun ==
  /\ step = "dryRun"
  /\ step' = IF options.dryRun THEN "returned" ELSE "write"
  /\ UNCHANGED <<options, remote, targetDir, functionFolders, fnIndex,
                 fileIndex, fnDependencies, fnEnvVars, functionsInfo,
                 allDependencies, allEnvVars>>
  /\ UNCHANGED <<transformVars, specifierVars, extractVars, convertVars,
                 routeVars>>

\* What convertRepository does after the dry-run test, as far as the disk
\* goes: the backend directory is written under targetDir
WriteBackend ==
  /\ step = "write"
  /\ targetDir' = targetDir \cup {"backend"}
  /\ step' = "process"
  /\ fnIndex' = 1
  /\ UNCHANGED <<options, remote, functionFolders, fileIndex,
                 fnDependencies, fnEnvVars, functionsInfo, allDependencies,
                 allEnvVars>>
  /\ UNCHANGED <<transformVars, specifierVars, extractVars, convertVars,
                 routeVars>>

\* [a-z]
Lower ==
  {"a","b","c","d","e","f","g","h","i","j","k","l","m",
   "n","o","p","q","r","s","t","u","v","w","x","y","z"}

s_Router == <<"R","o","u","t","e","r">>

\* sanitizeName: name.replace(/[^a-zA-Z0-9_]/g, '_'), with _ in front unless
\* the result starts with a letter or _
sanitizeName(name) ==
  LET cleaned == [i \in 1..Len(name) |->
                    IF name[i] \in Lower \cup Upper \cup Digits \cup {"_"}
                    THEN name[i] ELSE "_"]
  IN  IF cleaned # <<>> /\ cleaned[1] \in Lower \cup Upper \cup {"_"}
      THEN cleaned ELSE <<"_">> \o cleaned

\* convertRepository: one turn of for (const fnInfo of functionsInfo), with
\* what processFunction leaves under src/handlers and src/routes
ProcessFunction ==
  /\ step = "process"
  /\ fnIndex <= Len(functionsInfo)
  /\ handlerDirs' = handlerDirs \cup {functionsInfo[fnIndex].name}
  /\ routeFiles' = routeFiles \cup {functionsInfo[fnIndex].name}
  /\ routes' = Append(routes, functionsInfo[fnIndex].name)
  /\ fnIndex' = fnIndex + 1
  /\ UNCHANGED <<options, remote, targetDir, step, functionFolders, fileIndex,
                 fnDependencies, fnEnvVars, functionsInfo, allDependencies,
                 allEnvVars, routesIndex>>
  /\ UNCHANGED <<transformVars, specifierVars, extractVars, convertVars>>

\* writeRoutesIndex: one import line for each route, import <identifier>
\* from './<name>.js'
WriteRoutesIndex ==
  /\ step = "process"
  /\ fnIndex > Len(functionsInfo)
  /\ routesIndex' =
       [k \in 1..Len(routes) |->
          [identifier |-> sanitizeName(routes[k]) \o s_Router,
           from |-> routes[k]]]
  /\ step' = "done"
  /\ UNCHANGED <<options, remote, targetDir, functionFolders, fnIndex,
                 fileIndex, fnDependencies, fnEnvVars, functionsInfo,
                 allDependencies, allEnvVars, routes, handlerDirs, routeFiles>>
  /\ UNCHANGED <<transformVars, specifierVars, extractVars, convertVars>>

RepositoryNext ==
  \/ Clone
  \/ DetectProjectStructure
  \/ AnalyzeFolder
  \/ AnalyzeFile
  \/ PushResult
  \/ Aggregate
  \/ DryRun
  \/ WriteBackend
  \/ ProcessFunction
  \/ WriteRoutesIndex

SpecRepository == RepositoryInit /\ [][RepositoryNext]_vars

\* The folders of the repository analyzeFunctions analyses: those whose name
\* does not start with _ and that have an entry file
AnalysedFolders ==
  {k \in 1..Len(remote.folders) :
     /\ ~StartsWith(remote.folders[k].name, <<"_">>)
     /\ remote.folders[k].name \notin options.exclude
     /\ remote.folders[k].entry}

\* The union of what an extractor finds in the files
UnionOverFiles(extract(_), files) ==
  UNION {extract(files[j]) : j \in 1..Len(files)}

\* The loops of the analysis and of the aggregation are over
AnalysisDone == step \in {"dryRun", "returned", "write", "process", "done"}

\* C15: once the analysis and the aggregation loop are over, there is one
\* FunctionInfo for each analysed folder, its two sets are the unions of what
\* the extractors find in the folder's files, and allDependencies and
\* allEnvVars are the unions of these sets over the FunctionInfo records.
C15_SetsAreUnions ==
  AnalysisDone =>
    /\ Len(functionsInfo) = Cardinality(AnalysedFolders)
    /\ \A k \in AnalysedFolders :
         \E i \in 1..Len(functionsInfo) :
           /\ functionsInfo[i].name = remote.folders[k].name
           /\ functionsInfo[i].dependencies =
                UnionOverFiles(extractDependencies, remote.folders[k].files)
           /\ functionsInfo[i].envVars =
                UnionOverFiles(extractEnvVariables, remote.folders[k].files)
    /\ allDependencies =
         UNION {functionsInfo[i].dependencies : i \in 1..Len(functionsInfo)}
    /\ allEnvVars =
         UNION {functionsInfo[i].envVars : i \in 1..Len(functionsInfo)}

\* Two functions were analysed, one of them with two files that do not give
\* the same sets, and the sets of the two functions differ
C15_Witness ==
  /\ AnalysisDone
  /\ Len(functionsInfo) = 2
  /\ functionsInfo[1].dependencies # functionsInfo[2].dependencies
  /\ functionsInfo[1].envVars # functionsInfo[2].envVars
  /\ \E i \in 1..2 :
       /\ Len(functionsInfo[i].files) = 2
       /\ functionsInfo[i].files[1] # functionsInfo[i].files[2]
  /\ Cardinality(allDependencies) > 1

\* C16 (as claimed): in dry-run mode no step of convertRepository changes
\* what is on disk.
C16_DryRunChangesNoFile ==
  [][options.dryRun => targetDir' = targetDir]_vars

\* The registration statements root.find(j.ExpressionStatement) comes to, as
\* positions in the list of the expression statements
Registrations(body) ==
  {k \in 1..Len(expressionStatements(body)) :
     IsRegistration(nodeAt(body, expressionStatements(body)[k]))}

\* One step of the two registration passes: a statement is rewritten only
\* with the flag down, rewriting raises the flag, the flag is raised by
\* nothing else, and a raised flag stays up and keeps the tree as it is
FlagStep ==
  pc \in {"serve", "findDenoServe", "denoServe"} =>
    /\ handlerExported => (handlerExported' /\ root' = root)
    /\ (root' # root) <=> (~handlerExported /\ handlerExported')
    /\ (root' # root) =>
         Cardinality(Registrations(root')) = Cardinality(Registrations(root)) - 1

\* C17: in one run of the transform the flag is down when the registration
\* passes start, it is raised only by a step that rewrites a registration
\* call, it is never lowered, and no call is rewritten once it is up: at most
\* one registration call of the file is rewritten, over both passes.
C17_AtMostOneRewrite ==
  /\ [][pc = "findServe" => ~handlerExported']_vars
  /\ [][FlagStep]_vars
  /\ [](pc = "typeRefs" =>
          Cardinality(Registrations(fileInfo.source.body))
            - Cardinality(Registrations(root)) <= 1)

\* The passes are over, one call was rewritten and a call that could have
\* been rewritten is still there
C17_Witness ==
  /\ pc = "typeRefs"
  /\ handlerExported
  /\ Cardinality(Registrations(root))
       = Cardinality(Registrations(fileInfo.source.body)) - 1
  /\ \E k \in Registrations(root) :
       IsHonourable(nodeAt(root, expressionStatements(root)[k]))

\* The statement list that holds the statement at a path of the tree
ListAt(body, p) == IF Len(p) = 1 THEN body ELSE body[p[1]].body

\* function handler(params) { body }, async when the literal is declared
\* async or an await expression occurs in its body; an expression body becomes
\* a block with one return statement
HandlerDeclaration(literal) ==
  FunctionDeclaration(
    Identifier("handler"), literal.params,
    IF literal.body.type = "BlockStatement" THEN literal.body
    ELSE BlockStatement(<<ReturnStatement(literal.body)>>),
    literal.async \/ hasAwait(literal.body))

\* The pass at pc comes, with the flag down, to a call of its pattern whose
\* handler argument is a function or arrow literal
HonoursLiteral ==
  /\ pc \in {"serve", "denoServe"}
  /\ paths # <<>>
  /\ ~handlerExported
  /\ LET st == nodeAt(root, Head(paths))
     IN  /\ IsRegistration(st)
         /\ (pc = "serve") <=> isServeCall(st.expression)
         /\ IsFunctionLiteral(RegistrationHandler(st))

\* One step of a registration pass that honours a call with a literal: the
\* statement is replaced by the declaration of handler and export default
\* handler, and its list is otherwise as it was
LiteralStep ==
  HonoursLiteral =>
    LET p    == Head(paths)
        k    == p[Len(p)]
        old  == ListAt(root, p)
        new  == ListAt(root', p)
        literal == RegistrationHandler(nodeAt(root, p))
    IN  /\ Len(new) = Len(old) + 1
        /\ new[k] = HandlerDeclaration(literal)
        /\ new[k + 1] = ExportDefaultDeclaration(Identifier("handler"))
        /\ \A n \in 1..Len(old) :
             /\ n < k => new[n] = old[n]
             /\ n > k => new[n + 1] = old[n]

IsLegacyHostImport(spec) == StartsWith(spec, s_denoXUrl)

\* The package name at the head of a rewritten specifier is d
HeadedBy(spec, d) == spec = d \/ StartsWith(spec, d \o <<"/">>)

\* C21 (as claimed): for every import from https://deno.land/x/P..., the
\* specifier the rewrite gives starts with a package name that
\* extractDependencies has put in its set.
C21_ExtractAgreesWithRewrite ==
  scan = "done" =>
    \A k \in 1..Len(sourceText.imports) :
      IsLegacyHostImport(sourceText.imports[k]) =>
        \E d \in dependencies :
          HeadedBy(rewriteImportSource(sourceText.imports[k]), d)

\* A call Deno.env.get(...) or Deno.env.toObject(...) occurs in the node
RECURSIVE HoldsDenoEnvCall(_)
HoldsDenoEnvCall(n) ==
  \/ isDenoEnvCall(n, "get")
  \/ isDenoEnvCall(n, "toObject")
  \/ \E k \in 1..Len(childNodes(n)) : HoldsDenoEnvCall(childNodes(n)[k])

\* C22 (as claimed): the tree that is serialized holds no call of
\* Deno.env.get and no call of Deno.env.toObject, at any depth.
C22_NoDenoEnvCallLeft ==
  pc = "toSource" => \A k \in 1..Len(root) : ~HoldsDenoEnvCall(root[k])

\* The leftmost identifier of a type name
RECURSIVE RootIdentifier(_)
RootIdentifier(typeName) ==
  IF typeName.type = "TSQualifiedName" THEN RootIdentifier(typeName.left)
  ELSE typeName.name

\* n is a type reference with a qualified name whose leftmost identifier is
\* Deno
IsDenoTypeReference(n) ==
  /\ n.type = "TSTypeReference"
  /\ n.typeName.type = "TSQualifiedName"
  /\ RootIdentifier(n.typeName) = "Deno"

RECURSIVE HoldsDenoTypeReference(_)
HoldsDenoTypeReference(n) ==
  \/ IsDenoTypeReference(n)
  \/ \E k \in 1..Len(childNodes(n)) : HoldsDenoTypeReference(childNodes(n)[k])

\* C23 (as claimed): once the type-reference scrub has run, no type
\* reference with a qualified name rooted at Deno is left in the tree.
C23_NoDenoTypeReferenceLeft ==
  pc \in {"relativeImports", "dynamicImports", "ensureAsync", "toSource"} =>
    \A k \in 1..Len(root) : ~HoldsDenoTypeReference(root[k])

HasServeSpelling(source) ==
  \E s \in {s_serveSrc1, s_serveSrc2, s_serveSrc3, s_serveSrc4} :
    Includes(source, s)

\* The import declaration imports the name serve
ImportsServe(st) ==
  /\ st.type = "ImportDeclaration"
  /\ \E n \in 1..Len(st.specifiers) :
       /\ st.specifiers[n].type = "ImportSpecifier"
       /\ st.specifiers[n].imported.name = "serve"

\* C25 (as claimed): when every import of serve in the file is from a
\* specifier with one of the four spellings, no import declaration of the
\* output imports serve and none is left without a specifier.
C25_ServeImportRemoved ==
  LET body == fileInfo.source.body
  IN  (/\ pc = "toSource"
       /\ run = 1
       /\ \A k \in 1..Len(body) :
            ImportsServe(body[k]) => HasServeSpelling(body[k].source.value)) =>
        \A k \in 1..Len(root) :
          root[k].type = "ImportDeclaration" =>
            ~ImportsServe(root[k]) /\ root[k].specifiers # <<>>

\* The specifier has a prefix or a host the rewrite looks for
MatchesSourceRuntime(spec) ==
  \/ StartsWith(spec, s_npm)
  \/ StartsWith(spec, s_jsr)
  \/ Includes(spec, s_denoland)
  \/ Includes(spec, s_esmsh)

\* C26 (as claimed): the rewrite of a rewritten specifier gives it back
\* unchanged, and a rewritten specifier has none of the prefixes and hosts
\* the rewrite looks for.
C26_RewriteIdempotent ==
  rewrites = 1 =>
    /\ rewriteImportSource(rewritten) = rewritten
    /\ ~MatchesSourceRuntime(rewritten)

\* C27 (as claimed): every name the process.env and import.meta.env dot
\* patterns add is a complete identifier the text reads, never a proper
\* prefix of one.
C27_WholeIdentifierCaptured ==
  [][(scan \in {"processEnvPattern", "viteEnvPattern"})
       => ((envVars' \ envVars) \subseteq sourceText.reads)]_vars

\* The names of the folders analyzeFunctions analyses, in the order of the
\* folders
RECURSIVE AnalysedNames(_)
AnalysedNames(k) ==
  IF k > Len(remote.folders) THEN <<>>
  ELSE (IF k \in AnalysedFolders THEN <<remote.folders[k].name>> ELSE <<>>)
         \o AnalysedNames(k + 1)

\* The names of the folders that are left out: the name starts with _, it is
\* in config.exclude, or the folder has no entry file
LeftOutNames ==
  {remote.folders[k].name : k \in (1..Len(remote.folders)) \ AnalysedFolders}

\* C28: a folder that is left out never has a FunctionInfo, a handler
\* directory, a route file or a line of the routes index; once the analysis
\* is over the FunctionInfo records are those of the other folders, one each
\* and in the order of the folders, and so are the routes and the lines of
\* the routes index once it is written.
C28_OnlyAnalysedFunctionsGetRoutes ==
  /\ \A i \in 1..Len(functionsInfo) : functionsInfo[i].name \notin LeftOutNames
  /\ \A i \in 1..Len(routes) : routes[i] \notin LeftOutNames
  /\ \A i \in 1..Len(routesIndex) : routesIndex[i].from \notin LeftOutNames
  /\ handlerDirs \cap LeftOutNames = {}
  /\ routeFiles \cap LeftOutNames = {}
  /\ AnalysisDone =>
       [i \in 1..Len(functionsInfo) |-> functionsInfo[i].name] = AnalysedNames(1)
  /\ step = "done" =>
       /\ routes = AnalysedNames(1)
       /\ [i \in 1..Len(routesIndex) |-> routesIndex[i].from] = AnalysedNames(1)
       /\ handlerDirs = {routes[i] : i \in 1..Len(routes)}
       /\ routeFiles = handlerDirs

\* The routes index is written for a repository with a function and with a
\* folder that has an entry file and is left out because config.exclude
\* lists it
C28_Witness ==
  /\ step = "done"
  /\ Len(routesIndex) = 1
  /\ \E k \in 1..Len(remote.folders) :
       /\ remote.folders[k].name \in options.exclude
       /\ remote.folders[k].entry

\* C29 (as claimed): in the routes index no two import lines declare the
\* same identifier, the routes being those of functions with distinct names.
C29_ImportIdentifiersDistinct ==
  \A i, j \in 1..Len(routesIndex) :
    routesIndex[i].from # routesIndex[j].from
      => routesIndex[i].identifier # routesIndex[j].identifier

\* src/utils/env.ts: generateEnvExample

s_hdrServer == <<"#"," ","S","e","r","v","e","r"," ","C","o","n","f","i","g","u","r","a","t","i","o","n">>
s_hdrPort == <<"P","O","R","T","=","3","0","0","1">>
s_hdrBaseUrl == <<"B","A","S","E","_","U","R","L","=","h","t","t","p",":","/","/","l","o","c","a","l","h","o","s","t",":","3","0","0","1">>
s_hdrBasePath == <<"B","A","S","E","_","P","A","T","H","=","/","f","u","n","c","t","i","o","n","s","/","v","1">>
s_hdrEnvironment == <<"#"," ","E","n","v","i","r","o","n","m","e","n","t">>
s_hdrNodeEnv == <<"N","O","D","E","_","E","N","V","=","d","e","v","e","l","o","p","m","e","n","t">>
s_titleSupabase == <<"#"," ","S","u","p","a","b","a","s","e">>
s_titleOpenai == <<"#"," ","O","p","e","n","A","I">>
s_titleStripe == <<"#"," ","S","t","r","i","p","e">>
s_titleEmail == <<"#"," ","E","m","a","i","l">>
s_titleApplication == <<"#"," ","A","p","p","l","i","c","a","t","i","o","n">>
s_NODE_ENV == <<"N","O","D","E","_","E","N","V">>
s_SUPABASE_URL == <<"S","U","P","A","B","A","S","E","_","U","R","L">>
s_SUPABASE_ANON_KEY == <<"S","U","P","A","B","A","S","E","_","A","N","O","N","_","K","E","Y">>
s_SUPABASE_SERVICE_ROLE_KEY == <<"S","U","P","A","B","A","S","E","_","S","E","R","V","I","C","E","_","R","O","L","E","_","K","E","Y">>
s_SUPABASE_JWT_SECRET == <<"S","U","P","A","B","A","S","E","_","J","W","T","_","S","E","C","R","E","T">>
s_DATABASE_URL == <<"D","A","T","A","B","A","S","E","_","U","R","L">>
s_OPENAI_API_KEY == <<"O","P","E","N","A","I","_","A","P","I","_","K","E","Y">>
s_OPENAI_ORG_ID == <<"O","P","E","N","A","I","_","O","R","G","_","I","D">>
s_STRIPE_SECRET_KEY == <<"S","T","R","I","P","E","_","S","E","C","R","E","T","_","K","E","Y">>
s_STRIPE_WEBHOOK_SECRET == <<"S","T","R","I","P","E","_","W","E","B","H","O","O","K","_","S","E","C","R","E","T">>
s_STRIPE_PUBLISHABLE_KEY == <<"S","T","R","I","P","E","_","P","U","B","L","I","S","H","A","B","L","E","_","K","E","Y">>
s_RESEND_API_KEY == <<"R","E","S","E","N","D","_","A","P","I","_","K","E","Y">>
s_SENDGRID_API_KEY == <<"S","E","N","D","G","R","I","D","_","A","P","I","_","K","E","Y">>
s_SMTP_HOST == <<"S","M","T","P","_","H","O","S","T">>
s_SMTP_PORT == <<"S","M","T","P","_","P","O","R","T">>
s_SMTP_USER == <<"S","M","T","P","_","U","S","E","R">>
s_SMTP_PASS == <<"S","M","T","P","_","P","A","S","S">>

\* const lines: string[] = ['# Server Configuration', ..., '']
headerLines ==
  <<s_hdrServer, s_hdrPort, s_hdrBaseUrl, s_hdrBasePath, <<>>,
    s_hdrEnvironment, s_hdrNodeEnv, <<>> >>

\* supabaseVars, openaiVars, stripeVars and emailVars, each with the comment
\* line pushed in front of its names
envGroups ==
  << [title |-> s_titleSupabase,
      names |-> <<s_SUPABASE_URL, s_SUPABASE_ANON_KEY,
                  s_SUPABASE_SERVICE_ROLE_KEY, s_SUPABASE_JWT_SECRET,
                  s_DATABASE_URL>>],
     [title |-> s_titleOpenai,
      names |-> <<s_OPENAI_API_KEY, s_OPENAI_ORG_ID>>],
     [title |-> s_titleStripe,
      names |-> <<s_STRIPE_SECRET_KEY, s_STRIPE_WEBHOOK_SECRET,
                  s_STRIPE_PUBLISHABLE_KEY>>],
     [title |-> s_titleEmail,
      names |-> <<s_RESEND_API_KEY, s_SENDGRID_API_KEY, s_SMTP_HOST,
                  s_SMTP_PORT, s_SMTP_USER, s_SMTP_PASS>>] >>

\* The characters of the names, by code unit
CodeUnits ==
  <<"0","1","2","3","4","5","6","7","8","9",
    "A","B","C","D","E","F","G","H","I","J","K","L","M",
    "N","O","P","Q","R","S","T","U","V","W","X","Y","Z","_",
    "a","b","c","d","e","f","g","h","i","j","k","l","m",
    "n","o","p","q","r","s","t","u","v","w","x","y","z">>

codeUnit(c) == CHOOSE i \in 1..Len(CodeUnits) : CodeUnits[i] = c

\* a sorts before b, or is b, in the order of Array.prototype.sort()
RECURSIVE sortsBefore(_, _)
sortsBefore(a, b) ==
  IF a = <<>> THEN TRUE
  ELSE IF b = <<>> THEN FALSE
  ELSE IF Head(a) # Head(b) THEN codeUnit(Head(a)) < codeUnit(Head(b))
  ELSE sortsBefore(Tail(a), Tail(b))

\* Array.from(envVars).sort()
RECURSIVE sortedNames(_)
sortedNames(names) ==
  IF names = {} THEN <<>>
  ELSE LET first == CHOOSE a \in names : \A b \in names : sortsBefore(a, b)
       IN  <<first>> \o sortedNames(names \ {first})

\* The lines `${v}=` of the names of the list that are in the set
RECURSIVE keyLines(_, _)
keyLines(names, present) ==
  IF names = <<>> THEN <<>>
  ELSE (IF Head(names) \in present THEN <<Head(names) \o <<"=">> >> ELSE <<>>)
         \o keyLines(Tail(names), present)

\* lines.join('\n')
RECURSIVE joinLines(_)
joinLines(ls) ==
  IF ls = <<>> THEN <<>>
  ELSE IF Len(ls) = 1 THEN ls[1]
  ELSE ls[1] \o <<"\n">> \o joinLines(Tail(ls))

\* The names generateEnvExample is called with
ExampleNames ==
  {s_PORT, s_NODE_ENV, s_SUPABASE_URL, s_DATABASE_URL, s_OPENAI_API_KEY,
   s_STRIPE_SECRET_KEY, s_SMTP_PORT, s_API_KEY, s_My_Var}

ExampleInit ==
  /\ given \in SUBSET ExampleNames
  /\ remainingVars = given
  /\ lines = <<>>
  /\ example = "lines"
  /\ envExample = <<>>
  /\ sourceText = [text |-> <<>>, reads |-> {}, imports |-> <<>>]
  /\ dependencies = {}
  /\ envVars = {}
  /\ scan = "idle"
  /\ TransformIdle
  /\ SpecifierIdle
  /\ ConvertIdle
  /\ RepositoryIdle

\* const lines: string[] = [...]
ExampleHeader ==
  /\ example = "lines"
  /\ lines' = headerLines
  /\ example' = "group1"
  /\ UNCHANGED <<given, remainingVars, envExample>>
  /\ UNCHANGED <<sourceText, dependencies, envVars, scan, transformVars,
                 specifierVars, convertVars, repositoryVars>>

\* if (hasSupabase) { ... } and the three blocks after it: the comment line,
\* the line of each name of the group that is in the set, which is deleted
\* from the set, and an empty line
ExampleGroup ==
  \E g \in 1..Len(envGroups) :
    /\ example = "group" \o ToString(g)
    /\ IF \E k \in 1..Len(envGroups[g].names) : envGroups[g].names[k] \in given
       THEN /\ lines' = lines \o <<envGroups[g].title>>
                          \o keyLines(envGroups[g].names, remainingVars)
                          \o << <<>> >>
            /\ remainingVars' =
                 remainingVars
                   \ {envGroups[g].names[k] : k \in 1..Len(envGroups[g].names)}
       ELSE UNCHANGED <<lines, remainingVars>>
    /\ example' = IF g < Len(envGroups) THEN "group" \o ToString(g + 1)
                  ELSE "application"
    /\ UNCHANGED <<given, envExample>>
    /\ UNCHANGED <<sourceText, dependencies, envVars, scan, transformVars,
                   specifierVars, convertVars, repositoryVars>>

\* if (envVars.size > 0) { ... } return lines.join('\n')
ExampleApplication ==
  /\ example = "application"
  /\ lines' =
       IF remainingVars # {}
       THEN lines \o <<s_titleApplication>>
              \o keyLines(sortedNames(remainingVars), remainingVars)
              \o << <<>> >>
       ELSE lines
  /\ envExample' = joinLines(lines')
  /\ example' = "returned"
  /\ UNCHANGED <<given, remainingVars>>
  /\ UNCHANGED <<sourceText, dependencies, envVars, scan, transformVars,
                 specifierVars, convertVars, repositoryVars>>

ExampleNext ==
  \/ ExampleHeader
  \/ ExampleGroup
  \/ ExampleApplication

SpecExample == ExampleInit /\ [][ExampleNext]_vars

\* The positions of the line ends of a text, with one before its first
\* character and one after its last
lineEnds(t) == {0, Len(t) + 1} \cup {i \in 1..Len(t) : t[i] = "\n"}

\* The lines of a text, each as the line ends it is between
lineSpans(t) ==
  {p \in lineEnds(t) \X lineEnds(t) :
     /\ p[1] < p[2]
     /\ \A m \in lineEnds(t) : ~(p[1] < m /\ m < p[2])}

lineAt(t, p) == SubSeq(t, p[1] + 1, p[2] - 1)

\* The key of a NAME=value line, <<>> for a comment or an empty line
lineKey(l) ==
  IF l = <<>> \/ Head(l) = "#" \/ ~\E i \in 1..Len(l) : l[i] = "="
  THEN <<>>
  ELSE SubSeq(l, 1, Least({i \in 1..Len(l) : l[i] = "="}) - 1)

\* The lines of the returned text that have the key
LinesWithKey(key) ==
  {p \in lineSpans(envExample) : lineKey(lineAt(envExample, p)) = key}

\* C30 (as claimed): in the returned text every name of the set the
\* function was called with is the key of exactly one line, and no key is
\* the key of two lines, the lines of the header included.
C30_OneLinePerKey ==
  example = "returned" =>
    /\ \A name \in given : Cardinality(LinesWithKey(name)) = 1
    /\ \A p \in lineSpans(envExample) :
         lineKey(lineAt(envExample, p)) # <<>>
           => Cardinality(LinesWithKey(lineKey(lineAt(envExample, p)))) = 1
====
